---- MODULE Spec2Model ----
(***************************************************************************)
(* ColorLab: the cancellable multi-step search (MultiStepOptimizerAsync,   *)
(* startMultiStepOptimization, cancelMultiStepOptimization), its top-6     *)
(* list, and the "no valid pair" exits of the synchronous optimizers.      *)
(*                                                                         *)
(* The repository holds two versions of the multi-step optimizer:          *)
(*   "js" : src/multiStepOptimizer.js   (with Levels steps)                *)
(*   "p7" : src/unnamed/part_007        (without Levels steps)             *)
(* The variable build says which one the page has loaded.                  *)
(*                                                                         *)
(* JavaScript runs one task at a time: an action is one task, i.e. a call  *)
(* from the host (start, cancel) or the resumption of a search after       *)
(* `await this.sleep()`, run up to its next await or its return, followed  *)
(* by the promise continuations that the return makes runnable.            *)
(***************************************************************************)
EXTENDS Integers, Sequences, FiniteSets, TLC

VARIABLES build, currentOptimizer, opt, topList, call

vars == <<build, currentOptimizer, opt, topList, call>>

(***************************************************************************)
(* Bounds of the model.                                                    *)
(***************************************************************************)
MaxSearches == 2      \* searches started in one behaviour of Spec
RaceSearches == 3     \* searches started in one behaviour of SpecRace
MaxCandidates == 4    \* candidate sequences of one search
MaxPairs == 1         \* length of a pair list
MaxError == 2         \* avgError values of the top-list pool are 1..MaxError

Builds == {"js", "p7"}

(***************************************************************************)
(* Colour pairs.  A field is null, the empty string or a hex string.       *)
(***************************************************************************)
NullValue == "<null>"
FieldValues == {NullValue, "", "#336699"}
Pairs == [source : FieldValues, target : FieldValues]
PairLists == UNION {[1..n -> Pairs] : n \in 0..MaxPairs}

\* JavaScript truthiness of a pair field
Truthy(v) == v # NullValue /\ v # ""

\* mutant: the filter keeps a pair that has either colour
ValidPairsEither(pairs) ==
    SelectSeq(pairs, LAMBDA p : Truthy(p.source) \/ Truthy(p.target))

\* pairs.filter(p => p.source && p.target)
ValidPairs(pairs) == SelectSeq(pairs, LAMBDA p : Truthy(p.source) /\ Truthy(p.target))

(***************************************************************************)
(* Results.  A result carries its steps and its avgError; null is <<>>     *)
(* and a result r is <<r>> wherever the code holds "a result or null".     *)
(***************************************************************************)
HSL_MODE_NAME == "Hue/Saturation"
LEVELS_MODE_NAME == "Levels"

\* the step objects built at the end of jointOptimizeModeSequenceEnhanced
BlendStep(mode, hex) ==
    [modeName |-> mode, blendHex |-> hex, hslValues |-> <<>>, levelsValues |-> <<>>]
HslStep(h, s, l) ==
    [modeName |-> HSL_MODE_NAME, blendHex |-> "#HSL", hslValues |-> <<h, s, l>>,
     levelsValues |-> <<>>]
\* levelsValues: <<inputBlack, inputGamma>> (the other three fields play no part here)
LevelsStep(ib, gamma) ==
    [modeName |-> LEVELS_MODE_NAME, blendHex |-> "#LVL", hslValues |-> <<>>,
     levelsValues |-> <<ib, gamma>>]

Result(steps, err) == [steps |-> steps, avgError |-> err]

\* getKey of one step: the text before the next '|'
StepKey(s, b) ==
    IF s.hslValues # <<>>
    THEN [tag |-> IF b = "js" THEN "HSL" ELSE s.modeName, hex |-> "", nums |-> s.hslValues]
    ELSE IF b = "js" /\ s.levelsValues # <<>>
    THEN [tag |-> "LVL", hex |-> "", nums |-> <<s.levelsValues[2]>>]
    ELSE [tag |-> s.modeName, hex |-> s.blendHex, nums |-> <<>>]

\* getKey(res): the step keys joined by '|'
GetKey(res, b) == [i \in 1..Len(res.steps) |-> StepKey(res.steps[i], b)]

\* findIndex: the first index whose key is key, 0 for -1
FindIndex(all, key, b) ==
    IF \E i \in 1..Len(all) : GetKey(all[i], b) = key
    THEN CHOOSE i \in 1..Len(all) :
            /\ GetKey(all[i], b) = key
            /\ \A j \in 1..(i - 1) : GetKey(all[j], b) # key
    ELSE 0

\* Array.prototype.sort with (a, b) => a.avgError - b.avgError is stable
RECURSIVE InsertByError(_, _)
InsertByError(sorted, r) ==
    IF sorted = <<>> THEN <<r>>
    ELSE IF sorted[Len(sorted)].avgError <= r.avgError THEN Append(sorted, r)
    ELSE Append(InsertByError(SubSeq(sorted, 1, Len(sorted) - 1), r), sorted[Len(sorted)])

RECURSIVE SortByError(_)
SortByError(all) ==
    IF all = <<>> THEN <<>>
    ELSE InsertByError(SortByError(SubSeq(all, 1, Len(all) - 1)), all[Len(all)])

MAX == 6

\* all.slice(0, n)
Slice(all, n) == SubSeq(all, 1, IF Len(all) < n THEN Len(all) ELSE n)

\* mutant: a result whose key is stored replaces the entry whatever its error
updateTopSolutionsAlwaysReplace(topSolutions, newResult, b) ==
    LET idx == FindIndex(topSolutions, GetKey(newResult, b), b)
        all == IF idx > 0
               THEN [topSolutions EXCEPT ![idx] = newResult]
               ELSE Append(topSolutions, newResult)
    IN Slice(SortByError(all), MAX)

\* MultiStepOptimizerAsync.updateTopSolutions: the new value of this.topSolutions
updateTopSolutions(topSolutions, newResult, b) ==
    LET idx == FindIndex(topSolutions, GetKey(newResult, b), b)
        all == IF idx > 0
               THEN IF newResult.avgError < topSolutions[idx].avgError
                    THEN [topSolutions EXCEPT ![idx] = newResult]
                    ELSE topSolutions
               ELSE Append(topSolutions, newResult)
    IN Slice(SortByError(all), MAX)

(***************************************************************************)
(* One MultiStepOptimizerAsync instance and the call of optimize on it.    *)
(***************************************************************************)
Pending == [kind |-> "pending", val |-> <<>>]
\* `return null` and `return this.bestResult`: val is <<>> for null
ReturnsSingle(best) == [kind |-> "single", val |-> best]
\* `return this.topSolutions`
ReturnsList(top) == [kind |-> "list", val |-> top]
\* an exception that leaves optimize: the promise rejects
Rejects == [kind |-> "rejected", val |-> <<>>]

\* The constructor.  cancelled, bestResult and topSolutions are the object's
\* fields; pairs and existingBest are optimize's arguments, total and evaluated
\* its locals, ret what its promise settles with.  The rest is history:
\* events are the phases passed to onProgress, bestFound counts the calls of
\* onBestFound and lastBestFound is the list the last call got, failed counts
\* the evaluations that threw, seen holds the results the evaluations
\* returned, sinceYield counts the evaluations since the last sleep.
NewOptimizer ==
    [pc |-> "new", cancelled |-> FALSE, bestResult |-> <<>>, topSolutions |-> <<>>,
     pairs |-> <<>>, existingBest |-> <<>>, total |-> 0, evaluated |-> 0,
     events |-> <<>>, bestFound |-> 0, lastBestFound |-> <<>>, failed |-> 0,
     seen |-> {}, sinceYield |-> 0, ret |-> Pending]

Suspended == {"sleep1", "sleep2", "sleep3", "sleepLoop"}

\* this.onProgress({phase: ...})
Emit(s, phase) == [s EXCEPT !.events = Append(@, phase)]

\* mutant: the cancellation exit returns null, dropping the best result
ReturnBestNull(s) == [s EXCEPT !.pc = "returned", !.ret = ReturnsSingle(<<>>)]

\* `if (this.cancelled) return this.bestResult`
ReturnBest(s) == [s EXCEPT !.pc = "returned", !.ret = ReturnsSingle(s.bestResult)]

\* mutant: the loop sleeps after every fourth evaluation
YieldEveryFour(b) == 4

\* the two builds differ in how often the optimizing loop sleeps ...
YieldEvery(b) == IF b = "js" THEN 3 ELSE 2

\* ... and in whether `if (this.cancelled) return` follows each phase's sleep
ChecksAfterSleep(b) == b = "p7"

\* mutant: optimize starts from nothing, ignoring options.existingBest
OptimizeEntryUnseeded(s, pairs, existingBest) ==
    LET s0 == [s EXCEPT !.cancelled = FALSE,
                        !.bestResult = <<>>,
                        !.topSolutions = <<>>,
                        !.existingBest = existingBest,
                        !.pairs = pairs]
    IN IF Len(ValidPairs(pairs)) = 0
       THEN [s0 EXCEPT !.pc = "returned", !.ret = ReturnsSingle(<<>>)]
       ELSE [Emit(s0, "single") EXCEPT !.pc = "sleep1"]

\* optimize up to its first await: reset, filter, phase 0 ('single')
OptimizeEntry(s, pairs, existingBest) ==
    LET s0 == [s EXCEPT !.cancelled = FALSE,
                        !.bestResult = existingBest,
                        !.topSolutions = existingBest,
                        !.existingBest = existingBest,
                        !.pairs = pairs]
    IN IF Len(ValidPairs(pairs)) = 0
       THEN [s0 EXCEPT !.pc = "returned", !.ret = ReturnsSingle(<<>>)]
       ELSE [Emit(s0, "single") EXCEPT !.pc = "sleep1"]

\* after the sleep that follows phase 0: phase 1 ('greedy')
AfterSingle(s, b) ==
    IF ChecksAfterSleep(b) /\ s.cancelled THEN ReturnBest(s)
    ELSE [Emit(s, "greedy") EXCEPT !.pc = "sleep2"]

\* mutant: phase 2 reports itself as 'greedy' once more
AfterGreedyRepeats(s, b, total) ==
    IF ChecksAfterSleep(b) /\ s.cancelled THEN ReturnBest(s)
    ELSE [Emit(s, "greedy") EXCEPT !.pc = "sleep3", !.total = total]

\* after the sleep that follows phase 1: phase 2 ('generating'); total is the
\* number of distinct candidates (greedy + enumerated)
AfterGreedy(s, b, total) ==
    IF ChecksAfterSleep(b) /\ s.cancelled THEN ReturnBest(s)
    ELSE [Emit(s, "generating") EXCEPT !.pc = "sleep3", !.total = total]

\* mutant: no try/catch around the evaluation, a throw leaves optimize
EvaluateCandidateUncaught(s, o, b) ==
    LET s1 == [Emit(s, "optimizing") EXCEPT !.evaluated = @ + 1, !.sinceYield = @ + 1]
    IN IF o.throws THEN [s1 EXCEPT !.failed = @ + 1, !.pc = "returned", !.ret = Rejects]
       ELSE IF o.res = <<>> THEN s1
       ELSE LET r == o.res[1]
                top == updateTopSolutions(s1.topSolutions, r, b)
                best == IF s1.bestResult = <<>> \/ r.avgError < s1.bestResult[1].avgError
                        THEN <<r>> ELSE s1.bestResult
            IN [s1 EXCEPT !.topSolutions = top, !.bestResult = best,
                          !.bestFound = @ + 1, !.lastBestFound = top,
                          !.seen = @ \cup {r}]

\* mutant: onBestFound is called only when the best result improved
EvaluateCandidateOnImprove(s, o, b) ==
    LET s1 == [Emit(s, "optimizing") EXCEPT !.evaluated = @ + 1, !.sinceYield = @ + 1]
    IN IF o.throws THEN [s1 EXCEPT !.failed = @ + 1]
       ELSE IF o.res = <<>> THEN s1
       ELSE LET r == o.res[1]
                top == updateTopSolutions(s1.topSolutions, r, b)
                better == s1.bestResult = <<>> \/ r.avgError < s1.bestResult[1].avgError
                s2 == [s1 EXCEPT !.topSolutions = top, !.seen = @ \cup {r},
                                 !.bestResult = IF better THEN <<r>> ELSE @]
            IN IF better
               THEN [s2 EXCEPT !.bestFound = @ + 1, !.lastBestFound = top]
               ELSE s2

\* mutant: the best result, once set, is never replaced
EvaluateCandidateKeepsFirstBest(s, o, b) ==
    LET s1 == [Emit(s, "optimizing") EXCEPT !.evaluated = @ + 1, !.sinceYield = @ + 1]
    IN IF o.throws THEN [s1 EXCEPT !.failed = @ + 1]
       ELSE IF o.res = <<>> THEN s1
       ELSE LET r == o.res[1]
                top == updateTopSolutions(s1.topSolutions, r, b)
                best == IF s1.bestResult = <<>> THEN <<r>> ELSE s1.bestResult
            IN [s1 EXCEPT !.topSolutions = top, !.bestResult = best,
                          !.bestFound = @ + 1, !.lastBestFound = top,
                          !.seen = @ \cup {r}]

\* one pass of the body of `for (const candidate of allCandidates)` past the
\* cancellation check; o is what jointOptimizeModeSequenceEnhanced does
EvaluateCandidate(s, o, b) ==
    LET s1 == [Emit(s, "optimizing") EXCEPT !.evaluated = @ + 1, !.sinceYield = @ + 1]
    IN IF o.throws THEN [s1 EXCEPT !.failed = @ + 1]
       ELSE IF o.res = <<>> THEN s1
       ELSE LET r == o.res[1]
                top == updateTopSolutions(s1.topSolutions, r, b)
                best == IF s1.bestResult = <<>> \/ r.avgError < s1.bestResult[1].avgError
                        THEN <<r>> ELSE s1.bestResult
            IN [s1 EXCEPT !.topSolutions = top, !.bestResult = best,
                          !.bestFound = @ + 1, !.lastBestFound = top,
                          !.seen = @ \cup {r}]

\* the optimizing loop from the top of an iteration to the next sleep or return
RECURSIVE RunLoop(_, _, _)
RunLoop(s, outs, b) ==
    IF s.evaluated = s.total
    THEN [Emit(s, "done") EXCEPT !.pc = "returned", !.ret = ReturnsList(s.topSolutions)]
    ELSE IF s.cancelled THEN ReturnBest(s)
    ELSE LET s1 == EvaluateCandidate(s, Head(outs), b)
         IN IF s1.pc = "returned" THEN s1
            ELSE IF s1.evaluated % YieldEvery(b) = 0 THEN [s1 EXCEPT !.pc = "sleepLoop"]
            ELSE RunLoop(s1, Tail(outs), b)

\* after the sleep that follows phase 2: phase 3 ('optimizing')
AfterGenerating(s, outs, b) ==
    IF ChecksAfterSleep(b) /\ s.cancelled THEN ReturnBest(s)
    ELSE RunLoop([s EXCEPT !.sinceYield = 0], outs, b)

\* after a sleep inside the loop
AfterLoopSleep(s, outs, b) == RunLoop([s EXCEPT !.sinceYield = 0], outs, b)

(***************************************************************************)
(* What the model feeds the search.                                        *)
(***************************************************************************)
StepsA == <<BlendStep("Multiply", "#804020")>>
StepsB == <<BlendStep("Screen", "#204080")>>

\* candidates come out better or worse than the existing best; one of them
\* has the existing best's key
ResultPool == {Result(StepsA, 1), Result(StepsB, 3)}
ExistingPool == {<<>>, <<Result(StepsA, 2)>>}

\* jointOptimizeModeSequenceEnhanced on valid pairs returns a result or throws
\* (a pair whose target is no hex string makes rgbToLab(...null) throw)
Outcomes == {[throws |-> TRUE, res |-> <<>>]} \cup
            {[throws |-> FALSE, res |-> <<r>>] : r \in ResultPool}

\* the number of candidates: both remainders of the loop's sleep period occur
Totals == (MaxCandidates - 1)..MaxCandidates

Min(a, b) == IF a < b THEN a ELSE b

\* the number of candidates a resumed loop evaluates before it sleeps or returns
Burst(s, b) == IF s.cancelled THEN 0 ELSE Min(YieldEvery(b), s.total - s.evaluated)

(***************************************************************************)
(* The host's operations.                                                  *)
(***************************************************************************)
\* startMultiStepOptimization(pairs, numSteps, callbacks, {existingBest}) up to its
\* await; when optimize returns at once the continuation clears the handle
Start(pairs, existingBest) ==
    \E i \in DOMAIN opt :
        /\ opt[i].pc = "new"
        /\ \A j \in 1..(i - 1) : opt[j].pc # "new"
        /\ LET old == IF currentOptimizer # 0
                      THEN [opt EXCEPT ![currentOptimizer].cancelled = TRUE]
                      ELSE opt
               s == OptimizeEntry(NewOptimizer, pairs, existingBest)
           IN /\ opt' = [old EXCEPT ![i] = s]
              /\ currentOptimizer' = IF s.pc = "returned" THEN 0 ELSE i
        /\ UNCHANGED <<build, topList, call>>

\* cancelMultiStepOptimization() with a search in the handle (it returns true);
\* with an empty handle it returns false and changes nothing
Cancel ==
    /\ currentOptimizer # 0
    /\ opt' = [opt EXCEPT ![currentOptimizer].cancelled = TRUE]
    /\ currentOptimizer' = 0
    /\ UNCHANGED <<build, topList, call>>

\* the continuation of startMultiStepOptimization once optimize has returned:
\* `currentOptimizer = null`
Settle(i, s) ==
    /\ opt' = [opt EXCEPT ![i] = s]
    /\ currentOptimizer' = IF s.pc = "returned" THEN 0 ELSE currentOptimizer
    /\ UNCHANGED <<build, topList, call>>

\* the timer of a sleep fires and search i runs on
ResumeSingle(i) ==
    /\ opt[i].pc = "sleep1"
    /\ Settle(i, AfterSingle(opt[i], build))

ResumeGreedy(i) ==
    /\ opt[i].pc = "sleep2"
    /\ \E total \in Totals : Settle(i, AfterGreedy(opt[i], build, total))

ResumeGenerating(i, O) ==
    /\ opt[i].pc = "sleep3"
    /\ \E outs \in [1..Burst(opt[i], build) -> O] :
          Settle(i, AfterGenerating(opt[i], outs, build))

ResumeLoop(i, O) ==
    /\ opt[i].pc = "sleepLoop"
    /\ \E outs \in [1..Burst(opt[i], build) -> O] :
          Settle(i, AfterLoopSleep(opt[i], outs, build))

NoCall == [fn |-> "none", pairs |-> <<>>, ret |-> "none"]

InitSearches(n) ==
    /\ build \in Builds
    /\ currentOptimizer = 0
    /\ opt = [i \in 1..n |-> NewOptimizer]
    /\ topList = <<>>
    /\ call = NoCall

Init == InitSearches(MaxSearches)

Next ==
    \/ \E pairs \in PairLists, e \in ExistingPool : Start(pairs, e)
    \/ Cancel
    \/ \E i \in DOMAIN opt : ResumeSingle(i)
    \/ \E i \in DOMAIN opt : ResumeGreedy(i)
    \/ \E i \in DOMAIN opt : ResumeGenerating(i, Outcomes)
    \/ \E i \in DOMAIN opt : ResumeLoop(i, Outcomes)

Spec == Init /\ [][Next]_vars

\* The same program with one more search, for the races on the handle; every
\* candidate evaluates to the same result and no existing best is passed.
RaceOutcomes == {[throws |-> FALSE, res |-> <<Result(StepsA, 1)>>]}
InitRace == InitSearches(RaceSearches)
NextRace ==
    \/ \E pairs \in PairLists : Start(pairs, <<>>)
    \/ Cancel
    \/ \E i \in DOMAIN opt : ResumeSingle(i)
    \/ \E i \in DOMAIN opt : ResumeGreedy(i)
    \/ \E i \in DOMAIN opt : ResumeGenerating(i, RaceOutcomes)
    \/ \E i \in DOMAIN opt : ResumeLoop(i, RaceOutcomes)
SpecRace == InitRace /\ [][NextRace]_vars

(***************************************************************************)
(* The top list on its own: any sequence of updateTopSolutions calls on    *)
(* one optimizer, over a pool with more keys than the list holds.          *)
(***************************************************************************)
\* Step sequences jointOptimizeModeSequenceEnhanced can report in build b, each
\* with any avgError of 1..MaxError.  Two of them differ in the order of their
\* steps alone; only "js" has Levels steps, and two of those differ in
\* inputBlack alone.
TopSteps(b) ==
    {<<BlendStep("Multiply", "#804020")>>,
     <<BlendStep("Multiply", "#804020"), BlendStep("Screen", "#204080")>>,
     <<BlendStep("Screen", "#204080"), BlendStep("Multiply", "#804020")>>}
    \cup (IF b = "js"
          THEN {<<LevelsStep(0, 100)>>, <<LevelsStep(5, 100)>>}
          ELSE {<<HslStep(10, 0, 5)>>})

\* three more, each with one avgError of its own above MaxError, so that the
\* pool has more keys than the list has places
TopTail(b) ==
    <<<<HslStep(10, 0, 0)>>,
      <<BlendStep("Multiply", "#204080")>>,
      IF b = "js" THEN <<LevelsStep(0, 220)>> ELSE <<BlendStep("Screen", "#804020")>>>>

TopPool(b) ==
    {Result(st, e) : st \in TopSteps(b), e \in 1..MaxError}
    \cup {Result(TopTail(b)[k], MaxError + k) : k \in 1..Len(TopTail(b))}

\* this.updateTopSolutions(newResult)
UpdateTop(newResult) ==
    /\ topList' = updateTopSolutions(topList, newResult, build)
    /\ UNCHANGED <<build, currentOptimizer, opt, call>>

\* optimize starts the list empty or as [existingBest]
InitTop ==
    /\ build \in Builds
    /\ currentOptimizer = 0
    /\ opt = [i \in 1..1 |-> NewOptimizer]
    /\ topList \in {<<>>} \cup {<<r>> : r \in TopPool(build)}
    /\ call = NoCall

NextTop == \E r \in TopPool(build) : UpdateTop(r)

SpecTop == InitTop /\ [][NextTop]_vars

(***************************************************************************)
(* The synchronous optimizers' entry: filter the pairs, return at once     *)
(* when none is left.  What they compute otherwise is "result" here.       *)
(***************************************************************************)
\* optimizeBlend(mode, pairs)
optimizeBlend(pairs) == IF Len(ValidPairs(pairs)) = 0 THEN "null" ELSE "result"

\* optimizeHsl(pairs)
optimizeHsl(pairs) == IF Len(ValidPairs(pairs)) = 0 THEN "null" ELSE "result"

\* optimizeLevels(pairs)
optimizeLevels(pairs) == IF Len(ValidPairs(pairs)) = 0 THEN "null" ELSE "result"

\* jointOptimizeModeSequenceEnhanced(pairs, modeSequence, ...)
jointOptimizeModeSequenceEnhanced(pairs) ==
    IF Len(ValidPairs(pairs)) = 0 THEN "null" ELSE "result"

\* greedySearchSequences(pairs, numSteps, ...): [] or the candidate list
greedySearchSequences(pairs) == IF Len(ValidPairs(pairs)) = 0 THEN "empty list" ELSE "list"

SyncFunctions ==
    {"optimizeBlend", "optimizeHsl", "optimizeLevels",
     "jointOptimizeModeSequenceEnhanced", "greedySearchSequences"}

Apply(fn, pairs) ==
    CASE fn = "optimizeBlend" -> optimizeBlend(pairs)
      [] fn = "optimizeHsl" -> optimizeHsl(pairs)
      [] fn = "optimizeLevels" -> optimizeLevels(pairs)
      [] fn = "jointOptimizeModeSequenceEnhanced" -> jointOptimizeModeSequenceEnhanced(pairs)
      [] fn = "greedySearchSequences" -> greedySearchSequences(pairs)

\* the host calls one of them; call keeps the last call and what it returned
CallSync(fn, pairs) ==
    /\ call' = [fn |-> fn, pairs |-> pairs, ret |-> Apply(fn, pairs)]
    /\ UNCHANGED <<build, currentOptimizer, opt, topList>>

InitSync == InitSearches(1)

NextSync ==
    \/ \E fn \in SyncFunctions, pairs \in PairLists : CallSync(fn, pairs)
    \/ Next

SpecSync == InitSync /\ [][NextSync]_vars

(***************************************************************************)
(* Properties.                                                             *)
(***************************************************************************)
Searches == DOMAIN opt

Range(seq) == {seq[k] : k \in 1..Len(seq)}

\* the results a search has accumulated: the existing best and what the
\* evaluations returned
Accumulated(s) == Range(s.existingBest) \cup s.seen

MinError(S) == CHOOSE e \in {r.avgError : r \in S} : \A r \in S : e <= r.avgError

\* search i is resumed in this step, cancel having been requested during its sleep
ResumedCancelled(i) ==
    /\ opt[i].pc \in Suspended
    /\ opt[i].cancelled
    /\ opt'[i] # opt[i]

\* C1: in every reachable state at most one started search is both
\* un-cancelled and unfinished (starting a search cancels the one in flight).
C1_AtMostOneActive ==
    Cardinality({i \in Searches : opt[i].pc \in Suspended /\ ~opt[i].cancelled}) <= 1

\* C2, the result: a cancelled search that has returned did not reject; when it
\* left through a cancellation exit it returned the best result accumulated so
\* far (null when there is none, in particular when nothing was evaluated and
\* no existing best was passed), and when the cancel came after its last check
\* it returned the top list, headed by that best result.
C2_Resolved ==
    \A i \in Searches :
        LET s == opt[i]
            acc == Accumulated(s)
        IN (s.cancelled /\ s.pc = "returned") =>
              /\ s.ret.kind \in {"single", "list"}
              /\ (s.evaluated = 0 /\ s.existingBest = <<>>) => s.ret = ReturnsSingle(<<>>)
              /\ (acc = {} /\ s.ret.kind = "single") => s.ret.val = <<>>
              /\ acc # {} =>
                    /\ s.ret.val # <<>>
                    /\ s.ret.val[1] \in acc
                    /\ s.ret.val[1].avgError = MinError(acc)

\* C2, the handle: a step that cancels a search without starting one (that is
\* cancelMultiStepOptimization) leaves the handle empty, and a step that
\* starts a search on valid pairs makes it the current, un-cancelled one.
C2_HandleFree ==
    /\ ((\E i \in Searches : ~opt[i].cancelled /\ opt'[i].cancelled)
         /\ (\A j \in Searches : opt[j].pc = "new" => opt'[j].pc = "new"))
       => currentOptimizer' = 0
    /\ \A j \in Searches :
          (opt[j].pc = "new" /\ opt'[j].pc \in Suspended)
          => (currentOptimizer' = j /\ ~opt'[j].cancelled)

C3_CancelSeenAtEveryYield ==
    [][\A i \in Searches :
          ResumedCancelled(i) =>
             /\ opt'[i].pc = "returned"
             /\ opt'[i].events = opt[i].events
             /\ opt'[i].evaluated = opt[i].evaluated]_vars

\* the phases of one search in the order single, greedy, generating,
\* optimizing (any number), done (last)
PhasesInOrder(ev) ==
    \A k \in 1..Len(ev) :
        /\ k = 1 => ev[k] = "single"
        /\ k = 2 => ev[k] = "greedy"
        /\ k = 3 => ev[k] = "generating"
        /\ k > 3 => ev[k] \in {"optimizing", "done"}
        /\ ev[k] = "done" => k = Len(ev)

\* after 'done': no progress event, no callback, no evaluation
DoneIsTerminal ==
    \A i \in Searches :
        "done" \in Range(opt[i].events) =>
            /\ opt'[i].events = opt[i].events
            /\ opt'[i].bestFound = opt[i].bestFound
            /\ opt'[i].evaluated = opt[i].evaluated

\* C4: the progress events of one search come in the order single, greedy,
\* generating, optimizing*, done, and nothing follows 'done'.
C4_PhaseOrder ==
    /\ [](\A i \in Searches : PhasesInOrder(opt[i].events))
    /\ [][DoneIsTerminal]_vars

\* a search went through all five phases
C4_Witness ==
    \E i \in Searches :
        /\ Len(opt[i].events) > 4
        /\ opt[i].events[4] = "optimizing"
        /\ opt[i].events[Len(opt[i].events)] = "done"

\* C5 as claimed: the search sleeps after every candidate evaluation, so no
\* two evaluations run without a sleep between them.
C5_YieldAfterEachEvaluation == \A i \in Searches : opt[i].sinceYield <= 1

\* C5 as the code has it: the loop sleeps after every third evaluation in
\* src/multiStepOptimizer.js and after every second in part_007, so at most
\* that many evaluations run back to back; a cancel requested during such a
\* sleep is seen before the next evaluation.
C5_YieldEveryFew ==
    /\ [](\A i \in Searches :
            /\ opt[i].sinceYield <= (IF build = "js" THEN 3 ELSE 2)
            /\ opt[i].pc = "sleepLoop" =>
                  opt[i].sinceYield = (IF build = "js" THEN 3 ELSE 2))
    /\ [][\A i \in Searches :
            (ResumedCancelled(i) /\ opt[i].pc = "sleepLoop") =>
               (opt'[i].evaluated = opt[i].evaluated /\ opt'[i].pc = "returned")]_vars

\* a search sleeps in the loop after a full batch and another one follows
C5_Witness ==
    \E i \in Searches :
        /\ opt[i].pc = "sleepLoop"
        /\ opt[i].sinceYield > 1
        /\ opt[i].evaluated < opt[i].total

KeyOf(r) == GetKey(r, build)

\* at most 6 entries, ascending by avgError, no key twice
TopWellFormed(top) ==
    /\ Len(top) <= 6
    /\ \A k \in 1..(Len(top) - 1) : top[k].avgError <= top[k + 1].avgError
    /\ \A k, m \in 1..Len(top) : KeyOf(top[k]) = KeyOf(top[m]) => k = m

\* what one updateTopSolutions(r) does to the list top
UpdateContract(top, r) ==
    LET after == updateTopSolutions(top, r, build)
        same == {k \in 1..Len(top) : KeyOf(top[k]) = KeyOf(r)}
    IN /\ TopWellFormed(after)
       /\ same # {} =>
             LET k == CHOOSE k \in same : TRUE
             IN IF r.avgError < top[k].avgError
                THEN Range(after) = (Range(top) \ {top[k]}) \cup {r}
                ELSE after = top
       /\ same = {} =>
             /\ Range(after) \subseteq Range(top) \cup {r}
             /\ Len(after) = (IF Len(top) < 6 THEN Len(top) + 1 ELSE 6)
             /\ (Len(top) < 6 \/ r.avgError < top[Len(top)].avgError) => r \in Range(after)

C7_CallbackEveryEvaluation ==
    \A i \in Searches :
        /\ opt[i].bestFound = opt[i].evaluated
        /\ opt[i].bestFound > 0 => opt[i].lastBestFound = opt[i].topSolutions
        /\ "done" \in Range(opt[i].events) => opt[i].ret = ReturnsList(opt[i].topSolutions)

\* C7 as the code has it: every candidate evaluation that returns a result
\* (does not throw) is followed by one call of onBestFound with the current
\* top list of at most 6 entries, and a search that completes returns that list.
C7_CallbackEveryResult ==
    \A i \in Searches :
        /\ opt[i].bestFound = opt[i].evaluated - opt[i].failed
        /\ opt[i].bestFound > 0 =>
              /\ opt[i].lastBestFound = opt[i].topSolutions
              /\ Len(opt[i].lastBestFound) <= 6
        /\ "done" \in Range(opt[i].events) => opt[i].ret = ReturnsList(opt[i].topSolutions)

\* a search completed with evaluations that threw and evaluations that did not
C7_Witness ==
    \E i \in Searches :
        /\ "done" \in Range(opt[i].events)
        /\ opt[i].failed > 0
        /\ opt[i].bestFound > 1

\* C8: a search started with an existing best returns nothing worse: the head
\* of the list returned on completion and the result returned on
\* cancellation have avgError <= existingBest.avgError.
C8_RerunsOnlyImprove ==
    \A i \in Searches :
        (opt[i].existingBest # <<>> /\ opt[i].pc = "returned" /\ opt[i].events # <<>>) =>
            /\ opt[i].ret.kind \in {"single", "list"}
            /\ opt[i].ret.val # <<>>
            /\ opt[i].ret.val[1].avgError <= opt[i].existingBest[1].avgError

\* a search with an existing best completed having found only worse results
C8_Witness ==
    \E i \in Searches :
        /\ opt[i].existingBest # <<>>
        /\ opt[i].ret.kind = "list"
        /\ opt[i].seen # {}
        /\ \A r \in opt[i].seen : r.avgError > opt[i].existingBest[1].avgError

\* C9: an evaluation that throws is caught for that candidate: it adds nothing
\* to the top list or the best result, the later candidates are evaluated, and
\* the promise does not reject.
C9_ThrowSkipsCandidate ==
    \A i \in Searches :
        /\ opt[i].ret.kind # "rejected"
        /\ Range(opt[i].topSolutions) \subseteq Accumulated(opt[i])
        /\ Range(opt[i].bestResult) \subseteq Accumulated(opt[i])
        /\ Len(opt[i].topSolutions) <= Len(opt[i].existingBest) + opt[i].evaluated - opt[i].failed
        /\ (opt[i].pc = "returned" /\ ~opt[i].cancelled /\ opt[i].events # <<>>) =>
              (opt[i].evaluated = opt[i].total /\ opt[i].ret.kind = "list")

\* a search completed although some, not all, of its evaluations threw
C9_Witness ==
    \E i \in Searches :
        /\ opt[i].pc = "returned" /\ ~opt[i].cancelled
        /\ opt[i].failed > 0 /\ opt[i].failed < opt[i].evaluated
        /\ opt[i].evaluated = opt[i].total

\* no pair of the list has both colours
NoValidPair(pairs) ==
    \A k \in 1..Len(pairs) :
        pairs[k].source \in {NullValue, ""} \/ pairs[k].target \in {NullValue, ""}

\* C10: with no valid pair, optimizeBlend, optimizeHsl, optimizeLevels and
\* jointOptimizeModeSequenceEnhanced return null, greedySearchSequences
\* returns an empty list, and optimize returns null having emitted no
\* progress event (and called no callback).
C10_NothingToCompute ==
    /\ (call.fn # "none" /\ NoValidPair(call.pairs)) =>
          call.ret = (IF call.fn = "greedySearchSequences" THEN "empty list" ELSE "null")
    /\ \A i \in Searches :
          (opt[i].pc # "new" /\ NoValidPair(opt[i].pairs)) =>
              /\ opt[i].pc = "returned"
              /\ opt[i].ret = ReturnsSingle(<<>>)
              /\ opt[i].events = <<>>
              /\ opt[i].bestFound = 0

\* a synchronous optimizer and a search were both given one incomplete pair
C10_Witness ==
    /\ call.fn # "none" /\ Len(call.pairs) > 0 /\ NoValidPair(call.pairs)
    /\ \E i \in Searches :
          opt[i].pc # "new" /\ Len(opt[i].pairs) > 0 /\ NoValidPair(opt[i].pairs)

(***************************************************************************)
(* Pairs whose colours are not hex strings.  Here a pair field is null or  *)
(* a text, a text being the sequence of its characters, so that hexToRgb   *)
(* is the regular expression it is in the code.                            *)
(***************************************************************************)
MaxHexPairs == 2      \* length of a pair list given to an optimizer

HexDigits ==
    {"0", "1", "2", "3", "4", "5", "6", "7", "8", "9",
     "a", "b", "c", "d", "e", "f", "A", "B", "C", "D", "E", "F"}

\* parseInt(c, 16) of one digit
HexVal(c) ==
    CASE c = "0" -> 0 [] c = "1" -> 1 [] c = "2" -> 2 [] c = "3" -> 3
      [] c = "4" -> 4 [] c = "5" -> 5 [] c = "6" -> 6 [] c = "7" -> 7
      [] c = "8" -> 8 [] c = "9" -> 9
      [] c \in {"a", "A"} -> 10 [] c \in {"b", "B"} -> 11
      [] c \in {"c", "C"} -> 12 [] c \in {"d", "D"} -> 13
      [] c \in {"e", "E"} -> 14 [] c \in {"f", "F"} -> 15

NullField == [null |-> TRUE, text |-> <<>>]
Text(chars) == [null |-> FALSE, text |-> chars]

\* /^#?([a-f\d]{2})([a-f\d]{2})([a-f\d]{2})$/i.exec(hex): <<r, g, b>>, or <<>> for null
hexToRgb(hex) ==
    LET t == IF hex.null THEN <<"n", "u", "l", "l">> ELSE hex.text
        d == IF Len(t) > 0 /\ t[1] = "#" THEN Tail(t) ELSE t
    IN  IF Len(d) = 6 /\ \A k \in 1..6 : d[k] \in HexDigits
        THEN <<16 * HexVal(d[1]) + HexVal(d[2]),
               16 * HexVal(d[3]) + HexVal(d[4]),
               16 * HexVal(d[5]) + HexVal(d[6])>>
        ELSE <<>>

\* truthiness of a pair field: neither null nor ""
TruthyText(v) == ~v.null /\ Len(v.text) > 0

HexFields ==
    {NullField, Text(<<>>), Text(<<"r", "e", "d">>),
     Text(<<"#", "1", "2", "3", "4", "5">>),
     Text(<<"#", "3", "3", "6", "6", "9", "9">>),
     Text(<<"8", "0", "4", "0", "2", "0">>)}
HexPairs == [source : HexFields, target : HexFields]
HexPairLists == UNION {[1..n -> HexPairs] : n \in 0..MaxHexPairs}

\* pairs.filter(p => p.source && p.target)
FilterPairs(pairs) ==
    SelectSeq(pairs, LAMBDA p : TruthyText(p.source) /\ TruthyText(p.target))

\* the loop of computeBlendError, computeHslError, computeLevelsError and
\* computeMultiStepError: `if (!sRgb || !tRgb) continue`; the pairs that
\* add to totalError and to perPairResults
Scored(pairs) ==
    SelectSeq(pairs, LAMBDA p : hexToRgb(p.source) # <<>> /\ hexToRgb(p.target) # <<>>)

Returned(ret, pairs) == [throws |-> FALSE, ret |-> ret, scored |-> pairs]
Thrown == [throws |-> TRUE, ret |-> "none", scored |-> <<>>]

\* optimizeBlend, optimizeHsl, optimizeLevels: filter, then the error function
ScoreFiltered(pairs) ==
    IF Len(FilterPairs(pairs)) = 0 THEN Returned("null", <<>>)
    ELSE Returned("result", Scored(FilterPairs(pairs)))

\* jointOptimizeModeSequenceEnhanced with a sequence of at least one mode:
\* after the search, hexToRgb(p.source).map(...) and rgbToLab(...hexToRgb(p.target))
\* are applied to every filtered pair
JointOnPairs(pairs) ==
    LET validPairs == FilterPairs(pairs)
    IN  IF Len(validPairs) = 0 THEN Returned("null", <<>>)
        ELSE IF \E k \in 1..Len(validPairs) :
                   hexToRgb(validPairs[k].source) = <<>> \/ hexToRgb(validPairs[k].target) = <<>>
             THEN Thrown
             ELSE Returned("result", Scored(validPairs))

\* greedySearchSequences with at least one trial: hexToRgb(p.source).map(...)
\* on every filtered pair, then optimizeBlend on the virtual pairs, whose
\* source is rgbToHex(...) and whose target is p.target
GreedyOnPairs(pairs) ==
    LET validPairs == FilterPairs(pairs)
    IN  IF Len(validPairs) = 0 THEN Returned("empty list", <<>>)
        ELSE IF \E k \in 1..Len(validPairs) : hexToRgb(validPairs[k].source) = <<>>
             THEN Thrown
             ELSE Returned("list", Scored(validPairs))

ApplyHex(fn, pairs) ==
    CASE fn \in {"optimizeBlend", "optimizeHsl", "optimizeLevels"} -> ScoreFiltered(pairs)
      [] fn = "jointOptimizeModeSequenceEnhanced" -> JointOnPairs(pairs)
      [] fn = "greedySearchSequences" -> GreedyOnPairs(pairs)

\* one call of an optimizer on a pair list (a behaviour holds one call)
CallHex(fn, pairs) ==
    /\ call.fn = "none"
    /\ call' = [fn |-> fn, pairs |-> pairs, ret |-> ApplyHex(fn, pairs)]
    /\ UNCHANGED <<build, currentOptimizer, opt, topList>>

InitHex ==
    /\ build \in Builds
    /\ currentOptimizer = 0
    /\ opt = <<>>
    /\ topList = <<>>
    /\ call = [fn |-> "none", pairs |-> <<>>, ret |-> Returned("none", <<>>)]

NextHex == \E fn \in SyncFunctions, pairs \in HexPairLists : CallHex(fn, pairs)

SpecHex == InitHex /\ [][NextHex]_vars

\* C11: whatever pairs the list holds, no optimizer throws, and a pair with
\* a missing or non-hex colour adds nothing to the objective or to the
\* per-pair results.
C11_InvalidPairsHarmless ==
    call.fn # "none" =>
        /\ ~call.ret.throws
        /\ \A k \in 1..Len(call.ret.scored) :
              /\ hexToRgb(call.ret.scored[k].source) # <<>>
              /\ hexToRgb(call.ret.scored[k].target) # <<>>

(***************************************************************************)
(* The simplex routines: nelderMead (src/optimizer.js), nelderMead3D       *)
(* (src/hslTool.js), nelderMead5D (src/unnamed/part_006) and               *)
(* nelderMeadMultiDim (src/multiStepOptimizer.js).  Coordinates are        *)
(* integers: hundredths for nelderMead and nelderMeadMultiDim (bounds      *)
(* 0..100), whole units for nelderMead3D, halves for the four level        *)
(* coordinates of nelderMead5D (0..510) and thousandths for its gamma      *)
(* (100..9990).  A division rounds down.  The variable call holds the      *)
(* call in progress: simplex, values, iteration count, and every point     *)
(* the objective was evaluated on.                                         *)
(***************************************************************************)
MaxIterations == 3    \* options.maxIterations of a simplex call

Max(a, b) == IF a > b THEN a ELSE b

clamp(val, min, max) == Max(min, Min(max, val))

RECURSIVE SumSeq(_)
SumSeq(x) == IF x = <<>> THEN 0 ELSE Head(x) + SumSeq(Tail(x))

Abs(a) == IF a < 0 THEN -a ELSE a

NMRoutines == {"nelderMead", "nelderMead3D", "nelderMead5D", "nelderMeadMultiDim"}

\* lower and upper bound of each coordinate (nelderMeadMultiDim: the
\* paramConfigs of the one-step sequence ["Levels"], five parameters in
\* 0..1 and an opacity in minOpacity..maxOpacity)
Lower(rt) ==
    CASE rt = "nelderMead" -> <<0, 0, 0>>
      [] rt = "nelderMead3D" -> <<-180, -100, -100>>
      [] rt = "nelderMead5D" -> <<0, 4, 100, 0, 0>>
      [] rt = "nelderMeadMultiDim" -> <<0, 0, 0, 0, 0, 10>>

Upper(rt) ==
    CASE rt = "nelderMead" -> <<100, 100, 100>>
      [] rt = "nelderMead3D" -> <<180, 100, 100>>
      [] rt = "nelderMead5D" -> <<506, 510, 9990, 510, 510>>
      [] rt = "nelderMeadMultiDim" -> <<100, 100, 100, 100, 100, 100>>

\* mutant: nelderMead5D clamps inputWhite to its own range only
clampParamsNoGap(rt, p) ==
    IF rt = "nelderMead5D"
    THEN <<Max(0, Min(506, p[1])), Max(4, Min(510, p[2])), Max(100, Min(9990, p[3])),
           Max(0, Min(510, p[4])), Max(0, Min(510, p[5]))>>
    ELSE [j \in 1..Len(p) |-> clamp(p[j], Lower(rt)[j], Upper(rt)[j])]

\* clampParams of the routine (nelderMead: clamp(x, 0, 1) on each coordinate)
clampParams(rt, p) ==
    IF rt = "nelderMead5D"
    THEN LET ib == Max(0, Min(506, p[1]))
             iw == Max(ib + 4, Min(510, p[2]))
         IN  <<ib, iw, Max(100, Min(9990, p[3])),
               Max(0, Min(510, p[4])), Max(0, Min(510, p[5]))>>
    ELSE [j \in 1..Len(p) |-> clamp(p[j], Lower(rt)[j], Upper(rt)[j])]

\* the initial steps of the simplex
Steps(rt) ==
    CASE rt = "nelderMead" -> <<10, 10, 10>>
      [] rt = "nelderMead3D" -> <<30, 20, 20>>
      [] rt = "nelderMead5D" -> <<20, -20, 200, 20, -20>>
      [] rt = "nelderMeadMultiDim" -> <<20, 20, 20, 20, 20, 20>>

\* simplex[0]: initial.slice() in nelderMead and nelderMead3D,
\* clampParams(initial.slice()) in nelderMead5D and nelderMeadMultiDim
FirstVertex(rt, initial) ==
    IF rt \in {"nelderMead", "nelderMead3D"} THEN initial ELSE clampParams(rt, initial)

\* the vertex pushed for axis i
AxisVertex(rt, initial, i) ==
    IF rt = "nelderMead"
    THEN [initial EXCEPT ![i] = clamp(@ + Steps(rt)[i], 0, 100)]
    ELSE clampParams(rt, [initial EXCEPT ![i] = @ + Steps(rt)[i]])

InitialSimplex(rt, initial) ==
    <<FirstVertex(rt, initial)>> \o
    [i \in 1..Len(initial) |-> AxisVertex(rt, initial, i)]

\* the objectives of the model: toward the lower corner, toward the upper
\* corner, toward the middle of the box, toward a point near the lower
\* corner, and a constant
Objectives == {"low", "high", "mid", "near", "flat"}

Objective(obj, rt, x) ==
    CASE obj = "low" -> SumSeq(x)
      [] obj = "high" -> 0 - SumSeq(x)
      [] obj = "mid" ->
           SumSeq([j \in 1..Len(x) |-> Abs(x[j] - (Lower(rt)[j] + Upper(rt)[j]) \div 2)])
      [] obj = "near" ->
           SumSeq([j \in 1..Len(x) |->
                      Abs(x[j] - (3 * Lower(rt)[j] + Upper(rt)[j]) \div 4)])
      [] obj = "flat" -> 0

\* insert index k after the indices whose key is not greater (a stable sort)
RECURSIVE InsertIdx(_, _, _)
InsertIdx(sorted, k, keys) ==
    IF sorted = <<>> THEN <<k>>
    ELSE IF keys[k] < keys[Head(sorted)] THEN <<k>> \o sorted
    ELSE <<Head(sorted)>> \o InsertIdx(Tail(sorted), k, keys)

RECURSIVE SortIdxUpTo(_, _)
SortIdxUpTo(keys, m) ==
    IF m = 0 THEN <<>> ELSE InsertIdx(SortIdxUpTo(keys, m - 1), m, keys)

\* values.map((v, i) => i).sort((a, b) => values[a] - values[b])
SortIdx(keys) == SortIdxUpTo(keys, Len(keys))

\* indices.indexOf(k)
IndexOf(seq, k) == CHOOSE q \in 1..Len(seq) : seq[q] = k /\ \A r \in 1..(q - 1) : seq[r] # k

\* the simplex and the values after the sort at the top of an iteration.
\* nelderMead first sorts the simplex in place with the comparator
\* values[indices.indexOf(simplex.indexOf(a))] - ..., and then takes
\* indices.map(i => simplex[i]) from the simplex so reordered; the other
\* routines take it from the simplex as it was.
Sorted(rt, simplex, values) ==
    LET indices == SortIdx(values)
        keys == [k \in 1..Len(simplex) |-> values[IndexOf(indices, k)]]
        inPlace == IF rt = "nelderMead"
                   THEN [q \in 1..Len(simplex) |-> simplex[SortIdx(keys)[q]]]
                   ELSE simplex
    IN  [simplex |-> [q \in 1..Len(simplex) |-> inPlace[indices[q]]],
         values |-> [q \in 1..Len(values) |-> values[indices[q]]]]

\* values[n] - values[0] < tolerance, the values being integers here
Converged(values) == values[Len(values)] - values[1] < 1

\* one pass of the loop on a sorted simplex that has not converged:
\* the new simplex and values, the points evaluated, and the move made
Iterate(rt, obj, simplex, values) ==
    LET n == Len(simplex) - 1
        worst == simplex[n + 1]
        centroid == [j \in 1..n |-> SumSeq([i \in 1..n |-> simplex[i][j]]) \div n]
        reflected == clampParams(rt, [j \in 1..n |-> centroid[j] + (centroid[j] - worst[j])])
        reflectedValue == Objective(obj, rt, reflected)
        expanded == clampParams(rt, [j \in 1..n |-> centroid[j] + 2 * (reflected[j] - centroid[j])])
        expandedValue == Objective(obj, rt, expanded)
        contracted == clampParams(rt, [j \in 1..n |-> centroid[j] + (worst[j] - centroid[j]) \div 2])
        contractedValue == Objective(obj, rt, contracted)
        shrunk == [i \in 1..(n + 1) |->
                     IF i = 1 THEN simplex[1]
                     ELSE clampParams(rt, [j \in 1..n |->
                              simplex[1][j] + (simplex[i][j] - simplex[1][j]) \div 2])]
    IN  IF reflectedValue >= values[1] /\ reflectedValue < values[n]
        THEN [simplex |-> [simplex EXCEPT ![n + 1] = reflected],
              values |-> [values EXCEPT ![n + 1] = reflectedValue],
              points |-> {reflected}, move |-> "reflect"]
        ELSE IF reflectedValue < values[1]
        THEN IF expandedValue < reflectedValue
             THEN [simplex |-> [simplex EXCEPT ![n + 1] = expanded],
                   values |-> [values EXCEPT ![n + 1] = expandedValue],
                   points |-> {reflected, expanded}, move |-> "expand"]
             ELSE [simplex |-> [simplex EXCEPT ![n + 1] = reflected],
                   values |-> [values EXCEPT ![n + 1] = reflectedValue],
                   points |-> {reflected, expanded}, move |-> "reflect"]
        ELSE IF contractedValue < values[n + 1]
        THEN [simplex |-> [simplex EXCEPT ![n + 1] = contracted],
              values |-> [values EXCEPT ![n + 1] = contractedValue],
              points |-> {reflected, contracted}, move |-> "contract"]
        ELSE [simplex |-> shrunk,
              values |-> [i \in 1..(n + 1) |->
                            IF i = 1 THEN values[1] ELSE Objective(obj, rt, shrunk[i])],
              points |-> {reflected, contracted} \cup {shrunk[i] : i \in 2..(n + 1)},
              move |-> "shrink"]

\* simplex[values.indexOf(Math.min(...values))]
BestVertex(simplex, values) ==
    simplex[CHOOSE q \in 1..Len(values) :
               /\ \A r \in 1..Len(values) : values[q] <= values[r]
               /\ \A r \in 1..(q - 1) : values[r] # values[q]]

\* the initial points of the model: for each routine some that its callers
\* pass (computeInitialGuess and [0.5, 0.5, 0.5]; the startingPoints of
\* optimizeHsl and of optimizeLevels; a random restart) and some outside
\* the box
Initials(rt) ==
    CASE rt = "nelderMead" ->
           {<<50, 50, 50>>, <<0, 100, 95>>, <<150, 50, 50>>, <<50, -20, 120>>}
      [] rt = "nelderMead3D" ->
           {<<0, 0, 0>>, <<0, -50, 0>>, <<120, 0, 0>>, <<200, 0, 0>>, <<0, -130, 90>>}
      [] rt = "nelderMead5D" ->
           {<<0, 510, 1000, 0, 510>>, <<20, 490, 1000, 0, 510>>, <<40, 470, 1200, 100, 510>>,
            <<500, 501, 50, 0, 520>>, <<-10, 0, 1000, 0, 510>>}
      [] rt = "nelderMeadMultiDim" ->
           {<<50, 50, 50, 50, 50, 100>>, <<0, 100, 9, 0, 100, 55>>,
            <<99, 98, 50, 50, 50, 0>>, <<120, -5, 50, 100, 0, 100>>}

\* Math.round(x) of x = h / 2, h >= 0
RoundHalves(h) == (h + 1) \div 2

\* optimizeLevels: finalParams of the best vertex p, the gamma in hundredths
finalParams(p) ==
    <<RoundHalves(p[1]), RoundHalves(p[2]), (p[3] + 5) \div 10,
      RoundHalves(p[4]), RoundHalves(p[5])>>

\* Math.round(b * 255) of b = c / 100, c >= 0
Round255(c) == (2 * 255 * c + 100) \div 200

\* jointOptimizeModeSequenceEnhanced: levelsValues of a Levels step whose
\* parameters start at index 1 of globalBest, the gamma in hundredths
levelsValues(globalBest) ==
    LET blend == [j \in 1..5 |-> clamp(globalBest[j], 0, 100)]
        ib == Min(253, Max(0, Round255(blend[1])))
        iw == Max(ib + 2, Min(255, Round255(blend[2])))
        gamma == Max(1000, Min(99900, blend[3] * 989 + 1000))
    IN  <<ib, iw, (gamma + 50) \div 100, Round255(blend[4]), Round255(blend[5])>>

\* the Levels parameters the caller of the routine reports for the vertex
\* returned (<<>> where the routine does not serve Levels)
Report(rt, best) ==
    CASE rt = "nelderMead5D" -> finalParams(best)
      [] rt = "nelderMeadMultiDim" -> levelsValues(best)
      [] OTHER -> <<>>

NoSimplexCall ==
    [fn |-> "none", obj |-> "none", simplex |-> <<>>, values |-> <<>>, iter |-> 0,
     evaluated |-> {}, move |-> "none", ret |-> <<>>, report |-> <<>>]

Running == call.fn # "none" /\ call.ret = <<>>

\* the call up to the loop: the simplex is built and every vertex evaluated
SimplexStart(rt, initial, obj) ==
    /\ ~Running
    /\ LET simplex == InitialSimplex(rt, initial)
       IN  call' = [fn |-> rt, obj |-> obj, simplex |-> simplex,
                    values |-> [i \in 1..Len(simplex) |-> Objective(obj, rt, simplex[i])],
                    iter |-> 0,
                    evaluated |-> {simplex[i] : i \in 1..Len(simplex)},
                    move |-> "start", ret |-> <<>>, report |-> <<>>]
    /\ UNCHANGED <<build, currentOptimizer, opt, topList>>

\* one pass of the loop that does not break
SimplexIterate ==
    /\ Running
    /\ call.iter < MaxIterations
    /\ LET sorted == Sorted(call.fn, call.simplex, call.values)
       IN  /\ ~Converged(sorted.values)
           /\ LET it == Iterate(call.fn, call.obj, sorted.simplex, sorted.values)
              IN  call' = [call EXCEPT !.simplex = it.simplex, !.values = it.values,
                                       !.iter = @ + 1,
                                       !.evaluated = @ \cup it.points,
                                       !.move = it.move]
    /\ UNCHANGED <<build, currentOptimizer, opt, topList>>

\* the loop ends, by its bound or by the break, the best vertex is returned
\* and the caller derives the parameters it reports
SimplexReturn ==
    /\ Running
    /\ LET sorted == Sorted(call.fn, call.simplex, call.values)
       IN  \/ /\ call.iter = MaxIterations
              /\ call' = [call EXCEPT
                    !.ret = <<BestVertex(call.simplex, call.values)>>,
                    !.report = Report(call.fn, BestVertex(call.simplex, call.values))]
           \/ /\ call.iter < MaxIterations
              /\ Converged(sorted.values)
              /\ call' = [call EXCEPT !.simplex = sorted.simplex, !.values = sorted.values,
                    !.ret = <<BestVertex(sorted.simplex, sorted.values)>>,
                    !.report = Report(call.fn, BestVertex(sorted.simplex, sorted.values))]
    /\ UNCHANGED <<build, currentOptimizer, opt, topList>>

InitSimplex ==
    /\ build \in Builds
    /\ currentOptimizer = 0
    /\ opt = <<>>
    /\ topList = <<>>
    /\ call = NoSimplexCall

NextSimplex ==
    \/ \E rt \in NMRoutines, obj \in Objectives :
          \E initial \in Initials(rt) : SimplexStart(rt, initial, obj)
    \/ SimplexIterate
    \/ SimplexReturn

SpecSimplex == InitSimplex /\ [][NextSimplex]_vars

\* the point satisfies the bounds of the routine
InBounds(rt, p) == clampParams(rt, p) = p

\* C12: every vertex the objective of a simplex routine is evaluated on,
\* and the vertex it returns, lies inside the routine's bounds, whatever
\* the initial point and the objective.
C12_VerticesInBounds ==
    call.fn # "none" =>
        /\ \A p \in call.evaluated : InBounds(call.fn, p)
        /\ \A k \in 1..Len(call.ret) : InBounds(call.fn, call.ret[k])

\* the same for the two routines that clamp the initial point
C12_ClampingRoutinesInBounds ==
    call.fn \in {"nelderMead5D", "nelderMeadMultiDim"} =>
        /\ \A p \in call.evaluated : InBounds(call.fn, p)
        /\ \A k \in 1..Len(call.ret) : InBounds(call.fn, call.ret[k])

\* <<inputBlack, inputWhite, gamma in hundredths, ...>> is a legal Levels setting
LevelsLegal(v) ==
    /\ 0 <= v[1] /\ v[1] <= 253
    /\ v[2] >= v[1] + 2 /\ v[2] <= 255
    /\ 10 <= v[3] /\ v[3] <= 999

\* C13: the Levels parameters reported by optimizeLevels after its final
\* rounding, and those of a Levels step of a multi-step result, satisfy
\* inputWhite >= inputBlack + 2, 0 <= inputBlack <= 253, inputWhite <= 255
\* and 0.1 <= gamma <= 9.99.
C13_LevelsLegal ==
    (call.fn \in {"nelderMead5D", "nelderMeadMultiDim"} /\ call.ret # <<>>) =>
        LevelsLegal(call.report)

\* optimizeLevels has reported a setting whose inputWhite is held at
\* inputBlack + 2 after at least one move of the simplex
C13_Witness ==
    /\ call.fn = "nelderMead5D" /\ call.ret # <<>> /\ call.iter > 0
    /\ call.report[2] = call.report[1] + 2

(***************************************************************************)
(* The restart loop of jointOptimizeModeSequenceEnhanced.  What            *)
(* nelderMeadMultiDim returns for a start or for a perturbed solution is   *)
(* any objective value in 0..MaxValue; the sequence of hops of each        *)
(* restart is kept in call.                                                *)
(***************************************************************************)
NumRestarts == 2      \* numRestarts
BasinHops == 2        \* basinHops
MaxValue == 3         \* objective values are 0..MaxValue

\* let globalBestValue = Infinity
Infinity == MaxValue + 1

\* mutant: the hop result replaces the solution whatever its value
AcceptHopAlways(hopValue, value) == TRUE

\* if (hopResult.value < value)
AcceptHop(hopValue, value) == hopValue < value

\* if (value < globalBestValue) { globalBestValue = value; ... }
EndRestart(c) ==
    [c EXCEPT !.globalBestValue = IF c.value < @ THEN c.value ELSE @,
              !.finals = Append(@, c.value)]

NoJointCall ==
    [fn |-> "none", restart |-> 0, hop |-> 0, value |-> Infinity, before |-> Infinity,
     globalBestValue |-> Infinity, finals |-> <<>>, done |-> FALSE]

\* the call enters the loop
JointStart ==
    /\ call.fn = "none" \/ call.done
    /\ call' = [NoJointCall EXCEPT !.fn = "jointOptimizeModeSequenceEnhanced",
                                   !.hop = BasinHops]
    /\ UNCHANGED <<build, currentOptimizer, opt, topList>>

\* a restart begins: nelderMeadMultiDim from the initial point gives v
JointRestart(v) ==
    /\ call.fn # "none" /\ ~call.done
    /\ call.hop = BasinHops /\ call.restart < NumRestarts
    /\ LET c == [call EXCEPT !.restart = @ + 1, !.hop = 0, !.value = v, !.before = v]
       IN  call' = IF BasinHops = 0 THEN EndRestart([c EXCEPT !.hop = BasinHops]) ELSE c
    /\ UNCHANGED <<build, currentOptimizer, opt, topList>>

\* one basin hop: nelderMeadMultiDim from the perturbed solution gives v;
\* after the last hop of the restart the global best is updated
JointHop(v) ==
    /\ call.fn # "none" /\ ~call.done
    /\ call.restart > 0 /\ call.hop < BasinHops
    /\ LET c == [call EXCEPT !.hop = @ + 1, !.before = call.value,
                             !.value = IF AcceptHop(v, call.value) THEN v ELSE @]
       IN  call' = IF c.hop = BasinHops THEN EndRestart(c) ELSE c
    /\ UNCHANGED <<build, currentOptimizer, opt, topList>>

\* the loop is over: the result is built from globalBest
JointFinish ==
    /\ call.fn # "none" /\ ~call.done
    /\ call.hop = BasinHops /\ call.restart = NumRestarts
    /\ call' = [call EXCEPT !.done = TRUE]
    /\ UNCHANGED <<build, currentOptimizer, opt, topList>>

InitJoint ==
    /\ build \in Builds
    /\ currentOptimizer = 0
    /\ opt = <<>>
    /\ topList = <<>>
    /\ call = NoJointCall

NextJoint ==
    \/ JointStart
    \/ \E v \in 0..MaxValue : JointRestart(v)
    \/ \E v \in 0..MaxValue : JointHop(v)
    \/ JointFinish

SpecJoint == InitJoint /\ [][NextJoint]_vars

\* a hop of the current restart has just been made
HopMade == call'.fn # "none" /\ call'.restart = call.restart /\ call'.hop = call.hop + 1

\* the value of the finished call is the least of its restarts' values
FinalIsMinimum ==
    call.done =>
        /\ \A k \in 1..Len(call.finals) : call.globalBestValue <= call.finals[k]
        /\ \E k \in 1..Len(call.finals) : call.globalBestValue = call.finals[k]

\* C14: within a restart a basin hop never worsens the solution (the value
\* after the hop is at most the value before it, and the hop result is
\* taken only when strictly better), and the final value of the sequence
\* is the minimum over all restarts.
C14_HopsNeverWorsen ==
    /\ []FinalIsMinimum
    /\ [][HopMade => (call'.value <= call.value /\ call'.before = call.value)]_vars

\* a finished call in which a hop was refused and a later restart won
C14_Witness ==
    /\ call.done
    /\ Len(call.finals) = NumRestarts
    /\ call.finals[1] > call.globalBestValue
    /\ call.before = call.value

(***************************************************************************)
(* The blend catalog.  Channel values are exact fractions [n, d] with      *)
(* d > 0, kept in lowest terms; null is <<>> and a number q is <<q>>       *)
(* where the code holds "a number or null".                                *)
(***************************************************************************)
GridN == 5            \* channel values of the model are 0/GridN .. GridN/GridN
MaxGuessPairs == 2    \* length of a pair list given to computeInitialGuess

RECURSIVE GCD(_, _)
GCD(a, b) == IF b = 0 THEN a ELSE GCD(b, a % b)

\* the fraction n / d, d # 0
Q(n, d) ==
    LET g == GCD(Abs(n), Abs(d))
        sg == IF d < 0 THEN -1 ELSE 1
    IN  [n |-> sg * (n \div g), d |-> sg * (d \div g)]

QAdd(a, b) == Q(a.n * b.d + b.n * a.d, a.d * b.d)
QSub(a, b) == Q(a.n * b.d - b.n * a.d, a.d * b.d)
QMul(a, b) == Q(a.n * b.n, a.d * b.d)
QDiv(a, b) == Q(a.n * b.d, a.d * b.n)
QLt(a, b) == a.n * b.d < b.n * a.d
QLe(a, b) == a.n * b.d <= b.n * a.d
QAbs(a) == [n |-> Abs(a.n), d |-> a.d]
QMin(a, b) == IF QLt(b, a) THEN b ELSE a
QMax(a, b) == IF QLt(a, b) THEN b ELSE a

Zero == Q(0, 1)
One == Q(1, 1)
Two == Q(2, 1)
Half == Q(1, 2)

\* clamp(val, 0, 1)
clamp01(val) == QMax(Zero, QMin(One, val))

\* the channel values of colours: with GridN = 5 the 8-bit values
\* 0x00, 0x33, 0x66, 0x99, 0xcc, 0xff divided by 255
Channel == {Q(k, GridN) : k \in 0..GridN}

\* the values of a blend channel: twice as fine, 0.5 included
BlendGrid == {Q(k, 2 * GridN) : k \in 0..(2 * GridN)}

\* blendModes.map(m => m.name)
ModeNames ==
    {"Normal", "Multiply", "Screen", "Subtract", "Divide", "Difference", "Overlay",
     "Hard Light", "Soft Light (Pegtop)", "Color Burn", "Linear Burn", "Color Dodge",
     "Linear Dodge (Add)", "Vivid Light", "Linear Light", "Pin Light", "Hard Mix"}

vividLightChannel(s, b) ==
    IF QLt(b, Half)
    THEN IF QLe(b, Zero) THEN Zero
         ELSE QSub(One, QDiv(QSub(One, s), QMul(Two, b)))
    ELSE IF QLe(One, b) THEN One
         ELSE QDiv(s, QMul(Two, QSub(One, b)))

\* the forward function of a mode on one channel
applyBlendChannel(modeName, s, b) ==
    CASE modeName = "Normal" -> b
      [] modeName = "Multiply" -> QMul(s, b)
      [] modeName = "Screen" -> QSub(One, QMul(QSub(One, s), QSub(One, b)))
      [] modeName = "Linear Dodge (Add)" -> clamp01(QAdd(s, b))
      [] modeName = "Subtract" -> clamp01(QSub(s, b))
      [] modeName = "Divide" ->
           IF b = Zero THEN (IF s = Zero THEN Zero ELSE One) ELSE QDiv(s, b)
      [] modeName = "Difference" -> QAbs(QSub(s, b))
      [] modeName = "Overlay" ->
           IF QLt(s, Half) THEN QMul(Two, QMul(s, b))
           ELSE QSub(One, QMul(Two, QMul(QSub(One, s), QSub(One, b))))
      [] modeName = "Hard Light" ->
           IF QLt(b, Half) THEN QMul(Two, QMul(s, b))
           ELSE QSub(One, QMul(Two, QMul(QSub(One, s), QSub(One, b))))
      [] modeName = "Soft Light (Pegtop)" ->
           QAdd(QMul(QSub(One, QMul(Two, b)), QMul(s, s)), QMul(Two, QMul(b, s)))
      [] modeName = "Color Burn" ->
           IF b = Zero THEN Zero ELSE QSub(One, QDiv(QSub(One, s), b))
      [] modeName = "Linear Burn" -> clamp01(QSub(QAdd(s, b), One))
      [] modeName = "Color Dodge" ->
           IF b = One THEN One ELSE QDiv(s, QSub(One, b))
      [] modeName = "Vivid Light" -> vividLightChannel(s, b)
      [] modeName = "Linear Light" -> clamp01(QSub(QAdd(s, QMul(Two, b)), One))
      [] modeName = "Pin Light" ->
           IF QLt(b, Half) THEN QMin(s, QMul(Two, b))
           ELSE QMax(s, QSub(QMul(Two, b), One))
      [] modeName = "Hard Mix" -> IF QLt(vividLightChannel(s, b), Half) THEN Zero ELSE One
      [] OTHER -> s

Some(q) == <<q>>
Null == <<>>

Quarter == Q(1, 4)
ThreeQuarters == Q(3, 4)

\* t / (2 * s)
MultiplyBranch(s, t) == QDiv(t, QMul(Two, s))
\* 1 - (1 - t) / (2 * (1 - s))
ScreenBranch(s, t) == QSub(One, QDiv(QSub(One, t), QMul(Two, QSub(One, s))))

\* blendModes[...].inverse(s, t): a number or null
inverse(modeName, s, t) ==
    CASE modeName = "Normal" -> Some(t)
      [] modeName = "Multiply" ->
           IF s = Zero THEN (IF t = Zero THEN Some(Half) ELSE Null) ELSE Some(QDiv(t, s))
      [] modeName = "Screen" ->
           IF s = One THEN (IF t = One THEN Some(Half) ELSE Null)
           ELSE Some(QSub(One, QDiv(QSub(One, t), QSub(One, s))))
      [] modeName = "Subtract" -> Some(QSub(s, t))
      [] modeName = "Divide" ->
           IF t = Zero THEN (IF s = Zero THEN Some(Half) ELSE Null) ELSE Some(QDiv(s, t))
      [] modeName = "Difference" -> Some(QSub(s, t))
      [] modeName = "Overlay" ->
           IF QLt(s, Half)
           THEN IF s = Zero THEN (IF t = Zero THEN Some(Half) ELSE Null)
                ELSE Some(MultiplyBranch(s, t))
           ELSE IF s = One THEN (IF t = One THEN Some(Half) ELSE Null)
                ELSE Some(ScreenBranch(s, t))
      [] modeName = "Hard Light" ->
           \* the last line of the function returns null whenever it is reached:
           \* b_m is then null (null < 0.5 holds) or b_s is null or below 0.5
           IF s # Zero /\ QLt(MultiplyBranch(s, t), Half) THEN Some(MultiplyBranch(s, t))
           ELSE IF s # One /\ QLe(Half, ScreenBranch(s, t)) THEN Some(ScreenBranch(s, t))
           ELSE Null
      [] modeName = "Soft Light (Pegtop)" ->
           IF s = Zero \/ s = One THEN (IF s = t THEN Some(Half) ELSE Null)
           ELSE Some(QMul(Half, QSub(One, QDiv(QSub(s, t), QMul(s, QSub(One, s))))))
      [] modeName = "Color Burn" ->
           IF s = Zero THEN (IF t = Zero THEN Some(Half) ELSE Null)
           ELSE IF s = One THEN (IF t = One THEN Some(Half) ELSE Null)
           ELSE IF QLt(s, t) THEN Null
           ELSE IF t = s THEN Some(One)
           ELSE IF t = One THEN Null
           ELSE Some(QDiv(QSub(One, s), QSub(One, t)))
      [] modeName = "Linear Burn" -> Some(QAdd(QSub(t, s), One))
      [] modeName = "Color Dodge" ->
           IF s = Zero
           THEN IF t = Zero THEN Some(Half) ELSE IF t = One THEN Some(One) ELSE Null
           ELSE IF s = One THEN (IF t = One THEN Some(Half) ELSE Null)
           ELSE IF t = Zero THEN Null
           ELSE IF t = s THEN Some(Zero)
           ELSE IF QLt(t, s) THEN Null
           ELSE Some(QSub(One, QDiv(s, t)))
      [] modeName = "Linear Dodge (Add)" -> Some(QSub(t, s))
      [] modeName = "Vivid Light" ->
           LET bBurn == IF t # One THEN Some(QDiv(QSub(One, s), QMul(Two, QSub(One, t))))
                        ELSE IF s = One THEN Some(Quarter) ELSE Null
               bDodge == IF t # Zero THEN Some(QSub(One, QDiv(s, QMul(Two, t))))
                         ELSE IF s = Zero THEN Some(ThreeQuarters) ELSE Null
           IN  IF bBurn # Null /\ QLt(bBurn[1], Half) THEN bBurn
               ELSE IF bDodge # Null /\ QLe(Half, bDodge[1]) THEN bDodge
               ELSE Null
      [] modeName = "Linear Light" -> Some(QDiv(QAdd(QSub(t, s), One), Two))
      [] modeName = "Pin Light" ->
           LET bLow == IF QLt(t, s) THEN Some(QDiv(t, Two))
                       ELSE IF t = s
                            THEN (IF s = One THEN Some(Q(499, 1000))
                                  ELSE Some(QDiv(QAdd(QDiv(s, Two), Half), Two)))
                            ELSE Null
               bHigh == IF QLt(s, t) THEN Some(QDiv(QAdd(t, One), Two))
                        ELSE IF t = s
                             THEN Some(QDiv(QAdd(Half, QDiv(QAdd(s, One), Two)), Two))
                             ELSE Null
           IN  IF bLow # Null /\ QLt(bLow[1], Half) THEN bLow
               ELSE IF bHigh # Null /\ QLe(Half, bHigh[1]) THEN bHigh
               ELSE Null
      [] modeName = "Hard Mix" ->
           IF t = Zero THEN Some(Quarter) ELSE IF t = One THEN Some(ThreeQuarters) ELSE Null

\* colours (normalised r, g, b) and weights of the pairs of the model; a
\* weight is what parseFloat made of the weight field or of the URL
Black == <<Zero, Zero, Zero>>
White == <<One, One, One>>
Teal == <<Q(1, GridN), Q(GridN - 1, GridN), One>>
Colours == {Black, White, Teal}
Weights == {-1, 0, 1, 2}
WeightedPairs == [source : Colours, target : Colours, weight : Weights]
WeightedPairLists == UNION {[1..n -> WeightedPairs] : n \in 0..MaxGuessPairs}

\* the per-pair inverse of computeInitialGuess: null when a channel's
\* inverse is null, else the three clamped inverses
PairInverse(modeName, pair) ==
    IF \E i \in 1..3 : inverse(modeName, pair.source[i], pair.target[i]) = Null
    THEN Null
    ELSE Some([i \in 1..3 |-> clamp01(inverse(modeName, pair.source[i], pair.target[i])[1])])

RECURSIVE QSum(_)
QSum(qs) == IF qs = <<>> THEN Zero ELSE QAdd(Head(qs), QSum(Tail(qs)))

\* computeInitialGuess(mode, pairs)
computeInitialGuess(modeName, pairs) ==
    LET valid == SelectSeq(pairs, LAMBDA p : PairInverse(modeName, p) # Null)
        norm(k) == PairInverse(modeName, valid[k])[1]
        totalWeight == SumSeq([k \in 1..Len(valid) |-> valid[k].weight])
    IN  IF Len(valid) > 0
        THEN IF totalWeight <= 0
             THEN [i \in 1..3 |->
                     QDiv(QSum([k \in 1..Len(valid) |-> norm(k)[i]]), Q(Len(valid), 1))]
             ELSE [i \in 1..3 |->
                     QDiv(QSum([k \in 1..Len(valid) |->
                                   QMul(norm(k)[i], Q(valid[k].weight, 1))]),
                          Q(totalWeight, 1))]
        ELSE <<Half, Half, Half>>

\* a behaviour of SpecBlend holds one call of one of the three functions
NoBlendCall == [fn |-> "none", mode |-> "none", args |-> <<>>, ret |-> <<>>]

\* applyBlendChannel(mode, s, b)
CallForward(modeName, s, b) ==
    /\ call.fn = "none"
    /\ call' = [fn |-> "applyBlendChannel", mode |-> modeName, args |-> <<s, b>>,
                ret |-> <<applyBlendChannel(modeName, s, b)>>]
    /\ UNCHANGED <<build, currentOptimizer, opt, topList>>

\* mode.inverse(s, t)
CallInverse(modeName, s, t) ==
    /\ call.fn = "none"
    /\ call' = [fn |-> "inverse", mode |-> modeName, args |-> <<s, t>>,
                ret |-> inverse(modeName, s, t)]
    /\ UNCHANGED <<build, currentOptimizer, opt, topList>>

\* computeInitialGuess(mode, pairs)
CallInitialGuess(modeName, pairs) ==
    /\ call.fn = "none"
    /\ call' = [fn |-> "computeInitialGuess", mode |-> modeName, args |-> pairs,
                ret |-> computeInitialGuess(modeName, pairs)]
    /\ UNCHANGED <<build, currentOptimizer, opt, topList>>

InitBlend ==
    /\ build \in Builds
    /\ currentOptimizer = 0
    /\ opt = <<>>
    /\ topList = <<>>
    /\ call = NoBlendCall

NextBlend ==
    \/ \E m \in ModeNames, s \in Channel, b \in BlendGrid : CallForward(m, s, b)
    \/ \E m \in ModeNames, s \in Channel, t \in Channel : CallInverse(m, s, t)
    \/ \E m \in ModeNames, pairs \in WeightedPairLists : CallInitialGuess(m, pairs)

SpecBlend == InitBlend /\ [][NextBlend]_vars

InUnit(q) == QLe(Zero, q) /\ QLe(q, One)

\* C17: applyBlendChannel(mode, s, b) is in [0, 1] for every catalog mode
\* and all s, b in [0, 1].
C17_ForwardInUnit ==
    call.fn = "applyBlendChannel" => InUnit(call.ret[1])

\* no blend value of the fine grid reproduces t from s (the grid holds the
\* value of every inverse formula for s, t on the colour grid)
NoSolution(modeName, s, t) ==
    \A k \in 0..(24 * GridN) :
        clamp01(applyBlendChannel(modeName, s, Q(k, 24 * GridN))) # t

\* C18: inverse(s, t) is null whenever no blend value in [0, 1] gives
\* forward(s, b) = t.
C18_NullWhenNoSolution ==
    (call.fn = "inverse" /\ NoSolution(call.mode, call.args[1], call.args[2])) =>
        call.ret = Null

\* C19: each of the three components computeInitialGuess returns is a
\* number in [0, 1].
C19_GuessInUnit ==
    call.fn = "computeInitialGuess" => \A i \in 1..3 : InUnit(call.ret[i])

\* the same when no weight is negative
C19_GuessInUnitForWeightsFromZero ==
    (/\ call.fn = "computeInitialGuess"
     /\ \A k \in 1..Len(call.args) : call.args[k].weight >= 0) =>
        \A i \in 1..3 : InUnit(call.ret[i])

(***************************************************************************)
(* The quality label of a result.  avgError is a number of tenths; it is   *)
(* negative when negative weights made it so.                              *)
(***************************************************************************)
MaxTenths == 70       \* avgError values of the model are -MaxTenths/10 .. MaxTenths/10

\* mutant: the thresholds belong to the better label
QualityOfBlendInclusive(avgError) ==
    IF QLe(avgError, Q(1, 1)) THEN "exact"
    ELSE IF QLe(avgError, Q(3, 1)) THEN "good"
    ELSE IF QLe(avgError, Q(6, 1)) THEN "approx"
    ELSE "poor"

\* optimizeBlend: quality
QualityOfBlend(avgError) ==
    IF QLt(avgError, Q(1, 1)) THEN "exact"
    ELSE IF QLt(avgError, Q(3, 1)) THEN "good"
    ELSE IF QLt(avgError, Q(6, 1)) THEN "approx"
    ELSE "poor"

\* optimizeHsl: quality
QualityOfHsl(avgError) ==
    IF QLt(avgError, Q(1, 1)) THEN "exact"
    ELSE IF QLt(avgError, Q(3, 1)) THEN "good"
    ELSE IF QLt(avgError, Q(6, 1)) THEN "approx"
    ELSE "poor"

\* optimizeLevels: quality
QualityOfLevels(avgError) ==
    IF QLt(avgError, Q(1, 1)) THEN "exact"
    ELSE IF QLt(avgError, Q(3, 1)) THEN "good"
    ELSE IF QLt(avgError, Q(6, 1)) THEN "approx"
    ELSE "poor"

QualityOf(fn, avgError) ==
    CASE fn = "optimizeBlend" -> QualityOfBlend(avgError)
      [] fn = "optimizeHsl" -> QualityOfHsl(avgError)
      [] fn = "optimizeLevels" -> QualityOfLevels(avgError)

Optimizers == {"optimizeBlend", "optimizeHsl", "optimizeLevels"}

\* the end of an optimizer: its final error metrics give avgError and the
\* result carries the label (a behaviour holds one result)
LabelResult(fn, avgError) ==
    /\ call.fn = "none"
    /\ call' = [fn |-> fn, avgError |-> avgError, quality |-> QualityOf(fn, avgError)]
    /\ UNCHANGED <<build, currentOptimizer, opt, topList>>

InitQuality ==
    /\ build \in Builds
    /\ currentOptimizer = 0
    /\ opt = <<>>
    /\ topList = <<>>
    /\ call = [fn |-> "none", avgError |-> Zero, quality |-> "none"]

NextQuality ==
    \E fn \in Optimizers, k \in (0 - MaxTenths)..MaxTenths : LabelResult(fn, Q(k, 10))

SpecQuality == InitQuality /\ [][NextQuality]_vars

\* C16: the label of a single-blend, HSL or Levels result is 'exact' iff
\* avgError < 1.0, 'good' iff 1.0 <= avgError < 3.0, 'approx' iff
\* 3.0 <= avgError < 6.0 and 'poor' iff avgError >= 6.0.
C16_QualityThresholds ==
    call.fn # "none" =>
        LET e == call.avgError
        IN  /\ call.quality \in {"exact", "good", "approx", "poor"}
            /\ call.quality = "exact" <=> QLt(e, Q(1, 1))
            /\ call.quality = "good" <=> (QLe(Q(1, 1), e) /\ QLt(e, Q(3, 1)))
            /\ call.quality = "approx" <=> (QLe(Q(3, 1), e) /\ QLt(e, Q(6, 1)))
            /\ call.quality = "poor" <=> QLe(Q(6, 1), e)

\* a result whose avgError is exactly 3.0 carries 'approx'
C16_Witness ==
    call.fn = "optimizeBlend" /\ call.avgError = Q(3, 1) /\ call.quality = "approx"

(***************************************************************************)
(* generateModeSequences(numSteps, maxSequences, allowHsl).  The catalog   *)
(* of the model is the first CatalogSize blend modes, followed by          *)
(* "Hue/Saturation" when allowHsl is set.  Math.random is a free choice:   *)
(* the random tail of a pairwise sequence, and the sequence a successful   *)
(* pass of the fill loop adds.  call.origin records the part of the code   *)
(* that pushed each sequence.                                              *)
(***************************************************************************)
CatalogSize == 2      \* blend modes in the catalog of the sequence generator
MaxSteps == 3         \* numSteps is 1..MaxSteps
MaxCap == 5           \* maxSequences is 1..MaxCap

\* blendModes.map(m => m.name), in the order of the catalog
ModeOrder ==
    <<"Normal", "Multiply", "Screen", "Subtract", "Divide", "Difference", "Overlay",
      "Hard Light", "Soft Light (Pegtop)", "Color Burn", "Linear Burn", "Color Dodge",
      "Linear Dodge (Add)", "Vivid Light", "Linear Light", "Pin Light", "Hard Mix">>

\* modeNames
SeqCatalog(allowHsl) ==
    SubSeq(ModeOrder, 1, CatalogSize) \o (IF allowHsl THEN <<HSL_MODE_NAME>> ELSE <<>>)

RECURSIVE Pow(_, _)
Pow(n, k) == IF k = 0 THEN 1 ELSE n * Pow(n, k - 1)

RECURSIVE Concat(_)
Concat(lists) == IF lists = <<>> THEN <<>> ELSE Head(lists) \o Concat(Tail(lists))

\* generate([]): every sequence of k modes, in the order of the recursion
RECURSIVE Generate(_, _)
Generate(modeNames, k) ==
    IF k = 0 THEN << <<>> >>
    ELSE LET rest == Generate(modeNames, k - 1)
         IN  Concat([i \in 1..Len(modeNames) |->
                        [j \in 1..Len(rest) |-> <<modeNames[i]>> \o rest[j]]])

\* Array(numSteps).fill(mode) for each mode
Uniform(modeNames, k) == [i \in 1..Len(modeNames) |-> [j \in 1..k |-> modeNames[i]]]

Tags(n, tag) == [i \in 1..n |-> tag]

NoGenCall ==
    [fn |-> "none", numSteps |-> 0, maxSequences |-> 0, modeNames |-> <<>>,
     sequences |-> <<>>, origin |-> <<>>, phase |-> "none", pairIdx |-> 0]

\* the call up to the end of its deterministic part: the one-step list, the
\* exhaustive enumeration, or the uniform sequences of the sample
GenStart(numSteps, maxSequences, allowHsl) ==
    /\ call.fn = "none"
    /\ LET modeNames == SeqCatalog(allowHsl)
           numModes == Len(modeNames)
           c == [NoGenCall EXCEPT !.fn = "generateModeSequences", !.numSteps = numSteps,
                                  !.maxSequences = maxSequences, !.modeNames = modeNames]
       IN  call' =
             IF numSteps = 1
             THEN [c EXCEPT !.sequences = [i \in 1..numModes |-> <<modeNames[i]>>],
                            !.origin = Tags(numModes, "all"), !.phase = "returned"]
             ELSE IF Pow(numModes, numSteps) <= maxSequences
             THEN [c EXCEPT !.sequences = Generate(modeNames, numSteps),
                            !.origin = Tags(Pow(numModes, numSteps), "all"),
                            !.phase = "returned"]
             ELSE [c EXCEPT !.sequences = Uniform(modeNames, numSteps),
                            !.origin = Tags(numModes, "uniform"),
                            !.phase = IF build = "p7" THEN "pairwise" ELSE "fill"]
    /\ UNCHANGED <<build, currentOptimizer, opt, topList>>

\* part_007 only: one pass of the double loop over (mode1, mode2), the rest
\* of the sequence drawn at random
GenPairwise(tail) ==
    /\ call.phase = "pairwise"
    /\ Len(tail) = call.numSteps - 2
    /\ LET numModes == Len(call.modeNames)
           mode1 == call.modeNames[(call.pairIdx \div numModes) + 1]
           mode2 == call.modeNames[(call.pairIdx % numModes) + 1]
           seq == <<mode1, mode2>> \o tail
           full == Len(call.sequences) >= call.maxSequences
           used == \E q \in 1..Len(call.sequences) : call.sequences[q] = seq
           c == IF full \/ used THEN call
                ELSE [call EXCEPT !.sequences = Append(@, seq),
                                  !.origin = Append(@, "pairwise")]
       IN  call' = [c EXCEPT !.pairIdx = @ + 1,
                             !.phase = IF call.pairIdx + 1 = numModes * numModes
                                       THEN "fill" ELSE "pairwise"]
    /\ UNCHANGED <<build, currentOptimizer, opt, topList>>

\* mutant: the fill loop pushes what it draws, used or not
GenFillUsed(seq) ==
    /\ call.phase = "fill"
    /\ Len(call.sequences) < call.maxSequences
    /\ call' = [call EXCEPT !.sequences = Append(@, seq), !.origin = Append(@, "random")]
    /\ UNCHANGED <<build, currentOptimizer, opt, topList>>

\* a pass of the fill loop that draws a sequence not yet used
GenFill(seq) ==
    /\ call.phase = "fill"
    /\ Len(call.sequences) < call.maxSequences
    /\ \A q \in 1..Len(call.sequences) : call.sequences[q] # seq
    /\ call' = [call EXCEPT !.sequences = Append(@, seq), !.origin = Append(@, "random")]
    /\ UNCHANGED <<build, currentOptimizer, opt, topList>>

\* the fill loop ends and the list is returned
GenReturn ==
    /\ call.phase = "fill"
    /\ Len(call.sequences) >= call.maxSequences
    /\ call' = [call EXCEPT !.phase = "returned"]
    /\ UNCHANGED <<build, currentOptimizer, opt, topList>>

InitGen ==
    /\ build \in Builds
    /\ currentOptimizer = 0
    /\ opt = <<>>
    /\ topList = <<>>
    /\ call = NoGenCall

\* the sequences of numSteps - 2 and of numSteps modes of the call
Tails == IF call.numSteps < 2 THEN {} ELSE [1..(call.numSteps - 2) -> Range(call.modeNames)]
Draws == IF call.fn = "none" THEN {} ELSE [1..call.numSteps -> Range(call.modeNames)]

NextGen ==
    \/ \E numSteps \in 1..MaxSteps, maxSequences \in 1..MaxCap, allowHsl \in BOOLEAN :
          GenStart(numSteps, maxSequences, allowHsl)
    \/ \E tail \in Tails : GenPairwise(tail)
    \/ \E seq \in Draws : GenFill(seq)
    \/ GenReturn

SpecGen == InitGen /\ [][NextGen]_vars

\* the list leaves nothing out and repeats nothing
FullEnumeration ==
    /\ Range(call.sequences) = Range(Generate(call.modeNames, call.numSteps))
    /\ Len(call.sequences) = Pow(Len(call.modeNames), call.numSteps)

\* the sample starts with every all-one-mode sequence, goes on with
\* pairwise-prefix sequences and ends with random ones; every pair of modes
\* is the prefix of a sequence of the first two parts unless these already
\* fill the list; and the list holds at most maxSequences sequences
StructuredSample ==
    LET numModes == Len(call.modeNames)
        structured == {q \in 1..Len(call.sequences) : call.origin[q] # "random"}
    IN  /\ Len(call.sequences) <= call.maxSequences
        /\ SubSeq(call.sequences, 1, Min(numModes, Len(call.sequences)))
              = SubSeq(Uniform(call.modeNames, call.numSteps), 1,
                       Min(numModes, Len(call.sequences)))
        /\ \A q \in 1..Len(call.sequences) : \A r \in 1..(q - 1) :
              /\ call.origin[q] = "uniform" => call.origin[r] = "uniform"
              /\ call.origin[q] = "pairwise" => call.origin[r] \in {"uniform", "pairwise"}
        /\ \/ Cardinality(structured) >= call.maxSequences
           \/ \A i, j \in 1..numModes :
                 \E q \in structured :
                    /\ call.sequences[q][1] = call.modeNames[i]
                    /\ call.sequences[q][2] = call.modeNames[j]

\* C20: generateModeSequences returns every one of the numModes^k sequences
\* when numModes^k <= maxSequences, and otherwise a structured sample
\* (all-one-mode sequences, pairwise-prefix sequences, random fill) of at
\* most maxSequences sequences.
C20_SequencesGenerated ==
    call.phase = "returned" =>
        IF Pow(Len(call.modeNames), call.numSteps) <= call.maxSequences
        THEN FullEnumeration
        ELSE StructuredSample

\* the first half of the claim alone
C20_FullEnumerationWhenSmall ==
    (call.phase = "returned"
       /\ Pow(Len(call.modeNames), call.numSteps) <= call.maxSequences) => FullEnumeration

\* the second half in part_007, for a cap that is not below the number of modes
C20_StructuredSampleInPart007 ==
    (/\ call.phase = "returned" /\ build = "p7"
     /\ Pow(Len(call.modeNames), call.numSteps) > call.maxSequences
     /\ call.maxSequences >= Len(call.modeNames)) => StructuredSample

(***************************************************************************)
(* MultiStepOptimizerAsync.optimize with numSteps = 1: the single phase    *)
(* (optimizeBlend on every mode of the catalog) and the optimization phase *)
(* (jointOptimizeModeSequenceEnhanced on every one-mode sequence).  Each   *)
(* search is taken at its best: the minimum of its objective over a grid   *)
(* of its parameters (blend channels in steps of 1/BlendSteps, opacity in  *)
(* tenths between minOpacity and maxOpacity).  The error of a pair is the  *)
(* sum over the channels of the distance between the achieved and the      *)
(* target 8-bit values; it is 0 exactly when deltaE is 0.  The objectives  *)
(* are sums over independent channels, so the minimum over the blend       *)
(* colours is the sum of the minima over each channel.                     *)
(***************************************************************************)
BlendSteps == 15      \* the searched blend channels are k/BlendSteps
MaxStepPairs == 2     \* pairs in a list given to optimize

SearchGrid == {Q(k, BlendSteps) : k \in 0..BlendSteps}

Dark == <<Q(1, GridN), Q(1, GridN), Q(1, GridN)>>
Mid == <<Q(3, GridN), Q(3, GridN), Q(3, GridN)>>

\* validPairs: weight undefined, so every pair weighs 1
StepPairs == {[source |-> s, target |-> t] : s \in {Black, White}, t \in {Dark, Mid, Teal}}
StepPairLists == UNION {[1..n -> StepPairs] : n \in 1..MaxStepPairs}

\* (minOpacity, maxOpacity) in tenths: (options.minOpacity || 10) / 100 ...
OpacityRanges == {<<1, 10>>, <<5, 10>>, <<1, 5>>}

\* Math.round(c * 255) for c in [0, 1]
RoundTo8(c) == (2 * 255 * c.n + c.d) \div (2 * c.d)

IntAbs(x) == IF x < 0 THEN -x ELSE x

RECURSIVE IntSum(_)
IntSum(xs) == IF xs = <<>> THEN 0 ELSE Head(xs) + IntSum(Tail(xs))

MinOf(S) == CHOOSE x \in S : \A y \in S : x <= y

\* computeBlendError on channel c: blend, clamp, round, distance to the target
BlendChannelError(modeName, pairs, c, b) ==
    IntSum([i \in 1..Len(pairs) |->
              IntAbs(RoundTo8(clamp01(applyBlendChannel(modeName, pairs[i].source[c], b)))
                     - RoundTo8(pairs[i].target[c]))])

\* applyBlendNorm on one channel: the blend mixed with the source by opacity
applyBlendNormChannel(modeName, s, b, opacity) ==
    clamp01(QAdd(QMul(opacity, applyBlendChannel(modeName, s, b)),
                 QMul(QSub(One, opacity), s)))

\* computeMultiStepError with one step, on channel c
StepChannelError(modeName, pairs, c, b, opacity) ==
    IntSum([i \in 1..Len(pairs) |->
              IntAbs(RoundTo8(applyBlendNormChannel(modeName, pairs[i].source[c], b, opacity))
                     - RoundTo8(pairs[i].target[c]))])

\* avgError of optimizeBlend(mode, pairs) when the search finds the minimum
optimizeBlendError(modeName, pairs) ==
    Q(IntSum([c \in 1..3 |->
                MinOf({BlendChannelError(modeName, pairs, c, b) : b \in SearchGrid})]),
      Len(pairs))

\* avgError of jointOptimizeModeSequenceEnhanced(pairs, [mode], ...) when the
\* search finds the minimum
jointOptimizeError(modeName, pairs, minOpacity, maxOpacity) ==
    Q(MinOf({IntSum([c \in 1..3 |->
                       MinOf({StepChannelError(modeName, pairs, c, b, Q(a, 10)) :
                                b \in SearchGrid})]) :
             a \in minOpacity..maxOpacity}),
      Len(pairs))

\* above every error
InfiniteError == Q(3 * 255 + 1, 1)

NoOptimizeCall ==
    [fn |-> "none", pairs |-> <<>>, minOpacity |-> 0, maxOpacity |-> 0, phase |-> "none",
     index |-> 0, singleBestMode |-> NullValue, singleBestError |-> InfiniteError,
     bestError |-> Null]

\* optimize(pairs, 1, {minOpacity, maxOpacity}) up to the single phase
OptimizeStart(pairs, range) ==
    /\ call.fn = "none"
    /\ call' = [NoOptimizeCall EXCEPT !.fn = "optimize", !.pairs = pairs,
                                      !.minOpacity = range[1], !.maxOpacity = range[2],
                                      !.phase = "single", !.index = 1]
    /\ UNCHANGED <<build, currentOptimizer, opt, topList>>

\* single phase, one mode of the catalog
SinglePhaseStep ==
    /\ call.phase = "single"
    /\ LET modeName == ModeOrder[call.index]
           avgError == optimizeBlendError(modeName, call.pairs)
           c == IF QLt(avgError, call.singleBestError)
                THEN [call EXCEPT !.singleBestError = avgError, !.singleBestMode = modeName]
                ELSE call
       IN  call' = IF call.index = Len(ModeOrder)
                   THEN [c EXCEPT !.phase = "optimizing", !.index = 1]
                   ELSE [c EXCEPT !.index = @ + 1]
    /\ UNCHANGED <<build, currentOptimizer, opt, topList>>

\* optimization phase, one candidate: the sequence of one mode
OptimizingStep ==
    /\ call.phase = "optimizing"
    /\ LET modeName == ModeOrder[call.index]
           avgError == jointOptimizeError(modeName, call.pairs, call.minOpacity,
                                          call.maxOpacity)
           c == IF call.bestError = Null \/ QLt(avgError, call.bestError[1])
                THEN [call EXCEPT !.bestError = Some(avgError)]
                ELSE call
       IN  call' = IF call.index = Len(ModeOrder)
                   THEN [c EXCEPT !.phase = "done"]
                   ELSE [c EXCEPT !.index = @ + 1]
    /\ UNCHANGED <<build, currentOptimizer, opt, topList>>

InitOneStep ==
    /\ build \in Builds
    /\ currentOptimizer = 0
    /\ opt = <<>>
    /\ topList = <<>>
    /\ call = NoOptimizeCall

NextOneStep ==
    \/ \E pairs \in StepPairLists, range \in OpacityRanges : OptimizeStart(pairs, range)
    \/ SinglePhaseStep
    \/ OptimizingStep

SpecOneStep == InitOneStep /\ [][NextOneStep]_vars

\* C15: for the same pairs, the best avgError of a search with numSteps = 1
\* equals the minimum avgError of optimizeBlend over the mode catalog, the
\* singleBestError the search reports.
C15_OneStepEqualsSingleBest ==
    call.phase = "done" => call.bestError = Some(call.singleBestError)

\* with maxOpacity 100 the one-step search is at least as good as the single
\* phase, whose parameters it contains
C15_OneStepNoWorseAtFullOpacity ==
    (call.phase = "done" /\ call.maxOpacity = 10) =>
        QLe(call.bestError[1], call.singleBestError)

(***************************************************************************)
(* Weighted aggregation of the per-pair errors: computeBlendError,         *)
(* computeMultiStepError and the average the greedy search computes for a  *)
(* Hue/Saturation or Levels step.  A pair is given by the deltaE the       *)
(* candidate parameters leave on it and by its weight field (<<>> when     *)
(* the pair has no weight).  A call is made on a list and, for             *)
(* comparison, on the list without one of its pairs.                       *)
(***************************************************************************)
MaxPairError == 2     \* the deltaE of a pair is 0..MaxPairError
MaxWeight == 2        \* a weight is 0..MaxWeight, or absent
MaxScoredPairs == 3   \* pairs in a list

ScoredPairs == [error : 0..MaxPairError, weight : {<<>>} \cup {<<w>> : w \in 0..MaxWeight}]
ScoredPairLists == UNION {[1..n -> ScoredPairs] : n \in 1..MaxScoredPairs}

\* pair.weight !== undefined ? pair.weight : 1
WeightOf(pair) == IF pair.weight = <<>> THEN 1 ELSE pair.weight[1]

\* p.weight || 1
WeightOrOne(pair) == IF pair.weight = <<>> \/ pair.weight = <<0>> THEN 1 ELSE pair.weight[1]

RECURSIVE MaxOver(_)
MaxOver(xs) == IF xs = <<>> THEN 0 ELSE Max(Head(xs), MaxOver(Tail(xs)))

computeBlendError(pairs) ==
    LET totalWeightedError == IntSum([i \in 1..Len(pairs) |-> pairs[i].error * WeightOf(pairs[i])])
        totalWeight == IntSum([i \in 1..Len(pairs) |-> WeightOf(pairs[i])])
    IN  [totalError |-> totalWeightedError,
         avgError |-> IF totalWeight > 0 THEN Q(totalWeightedError, totalWeight) ELSE Zero,
         maxError |-> MaxOver([i \in 1..Len(pairs) |-> pairs[i].error]),
         perPairResults |-> [i \in 1..Len(pairs) |->
                               [error |-> pairs[i].error, weight |-> WeightOf(pairs[i])]]]

computeMultiStepError(pairs) ==
    LET totalWeightedError == IntSum([i \in 1..Len(pairs) |-> pairs[i].error * WeightOf(pairs[i])])
        totalWeight == IntSum([i \in 1..Len(pairs) |-> WeightOf(pairs[i])])
    IN  [totalError |-> totalWeightedError,
         avgError |-> IF totalWeight > 0 THEN Q(totalWeightedError, totalWeight) ELSE Zero,
         maxError |-> MaxOver([i \in 1..Len(pairs) |-> pairs[i].error]),
         perPairResults |-> [i \in 1..Len(pairs) |->
                               [error |-> pairs[i].error, weight |-> WeightOf(pairs[i])]]]

\* greedySearchSequences on a Hue/Saturation or Levels mode: the virtual
\* pairs, the objective at the optimum, and the average over totalW
greedyStepError(pairs) ==
    LET virtualPairs == [i \in 1..Len(pairs) |->
                           [error |-> pairs[i].error, weight |-> <<WeightOf(pairs[i])>>]]
        res == computeMultiStepError(virtualPairs)
        sumW == IntSum([i \in 1..Len(virtualPairs) |-> WeightOrOne(virtualPairs[i])])
        totalW == IF sumW = 0 THEN 1 ELSE sumW
    IN  [res EXCEPT !.avgError = Q(res.totalError, totalW)]

ErrorFunctions == {"computeBlendError", "computeMultiStepError", "greedySearchSequences"}

ErrorOf(fn, pairs) ==
    CASE fn = "computeBlendError" -> computeBlendError(pairs)
      [] fn = "computeMultiStepError" -> computeMultiStepError(pairs)
      [] OTHER -> greedyStepError(pairs)

RemoveAt(xs, k) == SubSeq(xs, 1, k - 1) \o SubSeq(xs, k + 1, Len(xs))

NoErrorCall == [fn |-> "none", pairs |-> <<>>, dropped |-> 0]

CallError(fn, pairs, k) ==
    /\ call.fn = "none"
    /\ k \in 1..Len(pairs)
    /\ call' = [fn |-> fn, pairs |-> pairs, dropped |-> k,
                with |-> ErrorOf(fn, pairs),
                without |-> ErrorOf(fn, RemoveAt(pairs, k))]
    /\ UNCHANGED <<build, currentOptimizer, opt, topList>>

InitWeights ==
    /\ build \in Builds
    /\ currentOptimizer = 0
    /\ opt = <<>>
    /\ topList = <<>>
    /\ call = NoErrorCall

NextWeights ==
    \E fn \in ErrorFunctions, pairs \in ScoredPairLists, k \in 1..MaxScoredPairs :
        CallError(fn, pairs, k)

SpecWeights == InitWeights /\ [][NextWeights]_vars

\* the dropped pair has weight 0
DroppedWeighsNothing == call.fn # "none" /\ call.pairs[call.dropped].weight = <<0>>

\* another pair of the list has a positive weight
OtherWeightPositive ==
    \E i \in 1..Len(call.pairs) : i # call.dropped /\ WeightOf(call.pairs[i]) > 0

ZeroWeightIgnored ==
    /\ call.with.perPairResults[call.dropped].error = call.pairs[call.dropped].error
    /\ call.with.totalError = call.without.totalError
    /\ OtherWeightPositive => call.with.avgError = call.without.avgError

DefaultWeightIsOne ==
    \A i \in 1..Len(call.pairs) :
        call.pairs[i].weight = <<>> => call.with.perPairResults[i].weight = 1

\* C21: a pair with weight 0 appears in perPairResults with its own error
\* but changes neither totalError nor (when another weight is positive)
\* avgError; a pair without a weight is treated as weight 1.
C21_ZeroWeightIgnored ==
    /\ DroppedWeighsNothing => ZeroWeightIgnored
    /\ call.fn # "none" => DefaultWeightIsOne

\* the same for the two error functions alone
C21_ErrorFunctionsIgnoreZeroWeight ==
    /\ (DroppedWeighsNothing /\ call.fn # "greedySearchSequences") => ZeroWeightIgnored
    /\ call.fn # "none" => DefaultWeightIsOne

(***************************************************************************)
(* jointOptimizeModeSequenceEnhanced: the bounds of the flattened          *)
(* parameter vector and the construction of the result.  Values are in     *)
(* tenths.  The search hands over globalBest, a vertex of a simplex of     *)
(* nelderMeadMultiDim, and every vertex is stored through clampParams:     *)
(* globalBest is the clamped image of some raw vector, here a vector with  *)
(* one value on every slot but one.  part_007 has no Levels mode and four  *)
(* slots for every step.                                                   *)
(***************************************************************************)
MaxSeqSteps == 2      \* modes in a mode sequence of the joint refinement

JointModes == {"Normal", HSL_MODE_NAME, LEVELS_MODE_NAME}
JointSequences == UNION {[1..n -> JointModes] : n \in 1..MaxSeqSteps}
OpacityTenths == {1, 5, 10}
RawTenths == {-5, 3, 15}

getModeParamCount(modeName) == IF modeName = LEVELS_MODE_NAME THEN 5 ELSE 3

\* a step's slots: its parameters in [0, 1], then its opacity
StepParamConfigs(modeName, minOpacity, maxOpacity) ==
    [j \in 1..getModeParamCount(modeName) |-> [min |-> 0, max |-> 10]]
        \o <<[min |-> minOpacity, max |-> maxOpacity]>>

paramConfigs(modeSequence, minOpacity, maxOpacity) ==
    Concat([i \in 1..Len(modeSequence) |->
              StepParamConfigs(modeSequence[i], minOpacity, maxOpacity)])

\* stepConfigs[i].startIndex, counted from 0
RECURSIVE startIndex(_, _)
startIndex(modeSequence, i) ==
    IF i = 1 THEN 0
    ELSE startIndex(modeSequence, i - 1) + getModeParamCount(modeSequence[i - 1]) + 1

\* clampParams of nelderMeadMultiDim
clampToConfigs(v, configs) ==
    [idx \in 1..Len(v) |-> clamp(v[idx], configs[idx].min, configs[idx].max)]

\* the raw vectors: x on every slot, y on slot k
RawVectors(dims) ==
    {[idx \in 1..dims |-> IF idx = k THEN y ELSE x] :
        x \in RawTenths, y \in RawTenths, k \in 1..dims}

\* the steps of the result, from globalBest
ResultSteps(modeSequence, globalBest, minOpacity, maxOpacity) ==
    [i \in 1..Len(modeSequence) |->
        LET base == startIndex(modeSequence, i)
            paramCount == getModeParamCount(modeSequence[i])
        IN  [modeName |-> modeSequence[i],
             blend |-> [j \in 1..paramCount |-> clamp(globalBest[base + j], 0, 10)],
             opacity |-> clamp(globalBest[base + paramCount + 1], minOpacity, maxOpacity)]]

NoRefineCall ==
    [fn |-> "none", modeSequence |-> <<>>, minOpacity |-> 0, maxOpacity |-> 0,
     paramConfigs |-> <<>>, globalBest |-> <<>>, steps |-> <<>>]

JointRefine(modeSequence, minOpacity, maxOpacity, raw) ==
    /\ call.fn = "none"
    /\ build = "p7" => \A i \in 1..Len(modeSequence) : modeSequence[i] # LEVELS_MODE_NAME
    /\ LET configs == paramConfigs(modeSequence, minOpacity, maxOpacity)
           globalBest == clampToConfigs(raw, configs)
       IN  /\ Len(raw) = Len(configs)
           /\ call' = [fn |-> "jointOptimizeModeSequenceEnhanced",
                       modeSequence |-> modeSequence,
                       minOpacity |-> minOpacity, maxOpacity |-> maxOpacity,
                       paramConfigs |-> configs, globalBest |-> globalBest,
                       steps |-> ResultSteps(modeSequence, globalBest, minOpacity, maxOpacity)]
    /\ UNCHANGED <<build, currentOptimizer, opt, topList>>

InitRefine ==
    /\ build \in Builds
    /\ currentOptimizer = 0
    /\ opt = <<>>
    /\ topList = <<>>
    /\ call = NoRefineCall

NextRefine ==
    \E modeSequence \in JointSequences, minOpacity \in OpacityTenths,
       maxOpacity \in OpacityTenths :
        \E raw \in RawVectors(Len(paramConfigs(modeSequence, minOpacity, maxOpacity))) :
            JointRefine(modeSequence, minOpacity, maxOpacity, raw)

SpecRefine == InitRefine /\ [][NextRefine]_vars

OpacityInRange ==
    \A i \in 1..Len(call.steps) :
        call.minOpacity <= call.steps[i].opacity /\ call.steps[i].opacity <= call.maxOpacity

BlendInUnitRange ==
    \A i \in 1..Len(call.steps) :
        /\ Len(call.steps[i].blend) = IF call.steps[i].modeName = LEVELS_MODE_NAME THEN 5 ELSE 3
        /\ \A j \in 1..Len(call.steps[i].blend) :
              0 <= call.steps[i].blend[j] /\ call.steps[i].blend[j] <= 10

\* the slots of the vector that hold an opacity
OpacitySlots ==
    {startIndex(call.modeSequence, i) + getModeParamCount(call.modeSequence[i]) + 1 :
        i \in 1..Len(call.modeSequence)}

SlotLayout ==
    /\ \A i \in 1..Len(call.steps) :
          call.steps[i].opacity
             = clamp(call.globalBest[startIndex(call.modeSequence, i)
                                     + Len(call.steps[i].blend) + 1],
                     call.minOpacity, call.maxOpacity)
    /\ \A idx \in 1..Len(call.paramConfigs) :
          call.paramConfigs[idx] =
             IF idx \in OpacitySlots
             THEN [min |-> call.minOpacity, max |-> call.maxOpacity]
             ELSE [min |-> 0, max |-> 10]

\* C22: every step of a result of the joint refinement has its opacity in
\* [minOpacity, maxOpacity] and its blend components in [0, 1], three of them
\* for blend and Hue/Saturation steps and five for Levels steps; the slot
\* after a step's parameters is that step's opacity, the only slot bounded by
\* [minOpacity, maxOpacity].
C22_StepsInBounds ==
    call.fn # "none" => (OpacityInRange /\ BlendInUnitRange /\ SlotLayout)

\* the same for the searches whose minOpacity is not above their maxOpacity
C22_StepsInBoundsForOrderedRange ==
    (call.fn # "none" /\ call.minOpacity <= call.maxOpacity) =>
        (OpacityInRange /\ BlendInUnitRange /\ SlotLayout)

(***************************************************************************)
(* The candidates of the optimizing phase: greedySearchSequences sorts its *)
(* trial candidates by greedyError and keeps the first of every mode       *)
(* sequence; optimize appends the enumerated sequences and again keeps the *)
(* first of every mode sequence; the loop evaluates the list in order.     *)
(* An initial guess is given by the number of the trial that found it.     *)
(***************************************************************************)
MaxTrials == 2        \* greedy trials that yield a candidate
MaxEnumerated == 2    \* enumerated sequences
MaxGreedyError == 2   \* greedyError is 1..MaxGreedyError

CandidateSequences == Range(Generate(SeqCatalog(FALSE), 2))

\* the candidates of the trials, in the order of the trials
TrialLists ==
    UNION {{cs \in [1..n -> [modeSequence : CandidateSequences,
                             initialBlends : {<<t>> : t \in 1..n},
                             greedyError : {<<e>> : e \in 1..MaxGreedyError}]] :
               \A t \in 1..n : cs[t].initialBlends = <<t>>} : n \in 0..MaxTrials}

\* lists of distinct sequences, as generateModeSequences returns them
EnumeratedLists ==
    UNION {{qs \in [1..n -> CandidateSequences] :
               \A i, j \in 1..n : qs[i] = qs[j] => i = j} : n \in 1..MaxEnumerated}

\* candidates.sort((a, b) => a.greedyError - b.greedyError), a stable sort
RECURSIVE InsertCandidate(_, _)
InsertCandidate(sorted, c) ==
    IF sorted = <<>> THEN <<c>>
    ELSE IF c.greedyError[1] < Head(sorted).greedyError[1] THEN <<c>> \o sorted
    ELSE <<Head(sorted)>> \o InsertCandidate(Tail(sorted), c)

RECURSIVE SortCandidates(_)
SortCandidates(cs) ==
    IF cs = <<>> THEN <<>>
    ELSE InsertCandidate(SortCandidates(SubSeq(cs, 1, Len(cs) - 1)), cs[Len(cs)])

\* the loop over the candidates with the Set of the keys seen
RECURSIVE UniqueFrom(_, _)
UniqueFrom(cs, kept) ==
    IF cs = <<>> THEN kept
    ELSE IF \E q \in 1..Len(kept) : kept[q].modeSequence = Head(cs).modeSequence
         THEN UniqueFrom(Tail(cs), kept)
         ELSE UniqueFrom(Tail(cs), Append(kept, Head(cs)))

\* what greedySearchSequences returns
greedyUnique(candidates) == UniqueFrom(SortCandidates(candidates), <<>>)

EnumeratedCandidates(enumerated) ==
    [i \in 1..Len(enumerated) |->
        [modeSequence |-> enumerated[i], initialBlends |-> <<>>, greedyError |-> <<>>]]

MergeCandidatesEnumeratedFirst(greedyCandidates, enumerated) ==
    UniqueFrom(EnumeratedCandidates(enumerated) \o greedyCandidates, <<>>)

\* allCandidates
MergeCandidates(greedyCandidates, enumerated) ==
    UniqueFrom(greedyCandidates \o EnumeratedCandidates(enumerated), <<>>)

NoCandidateCall ==
    [fn |-> "none", phase |-> "none", greedyCandidates |-> <<>>, enumerated |-> <<>>,
     allCandidates |-> <<>>, evaluated |-> <<>>]

\* optimize from the greedy phase to the start of the optimizing loop
CandidateStart(trials, enumerated) ==
    /\ call.fn = "none"
    /\ LET greedyCandidates == greedyUnique(trials)
       IN  call' = [fn |-> "optimize", phase |-> "optimizing",
                    greedyCandidates |-> greedyCandidates, enumerated |-> enumerated,
                    allCandidates |-> MergeCandidates(greedyCandidates, enumerated),
                    evaluated |-> <<>>]
    /\ UNCHANGED <<build, currentOptimizer, opt, topList>>

\* one pass of the optimizing loop
CandidateEvaluate ==
    /\ call.fn = "optimize"
    /\ call.phase = "optimizing"
    /\ LET evaluated == Append(call.evaluated, call.allCandidates[Len(call.evaluated) + 1])
       IN  call' = [call EXCEPT !.evaluated = evaluated,
                                !.phase = IF Len(evaluated) = Len(call.allCandidates)
                                          THEN "done" ELSE "optimizing"]
    /\ UNCHANGED <<build, currentOptimizer, opt, topList>>

InitCandidates ==
    /\ build \in Builds
    /\ currentOptimizer = 0
    /\ opt = <<>>
    /\ topList = <<>>
    /\ call = NoCandidateCall

NextCandidates ==
    \/ \E trials \in TrialLists, enumerated \in EnumeratedLists :
          CandidateStart(trials, enumerated)
    \/ CandidateEvaluate

SpecCandidates == InitCandidates /\ [][NextCandidates]_vars

\* the mode sequences of the greedy candidates, then the enumerated ones
ProducedSequences ==
    [i \in 1..Len(call.greedyCandidates) |-> call.greedyCandidates[i].modeSequence]
        \o call.enumerated

\* the positions of ProducedSequences that hold the first copy of a sequence
FirstCopies ==
    {i \in 1..Len(ProducedSequences) :
        \A j \in 1..(i - 1) : ProducedSequences[j] # ProducedSequences[i]}

EvaluatedOnce ==
    /\ Len(call.evaluated) <= Len(call.allCandidates)
    /\ \A i \in 1..Len(call.evaluated) : call.evaluated[i] = call.allCandidates[i]
    /\ \A i, j \in 1..Len(call.evaluated) :
          call.evaluated[i].modeSequence = call.evaluated[j].modeSequence => i = j

GreedyThenEnumerated ==
    /\ Len(call.allCandidates) = Cardinality(FirstCopies)
    /\ \A k \in 1..Len(call.allCandidates) :
          \E i \in FirstCopies :
             /\ Cardinality({j \in FirstCopies : j <= i}) = k
             /\ call.allCandidates[k].modeSequence = ProducedSequences[i]

GreedyKept ==
    \A g \in 1..Len(call.greedyCandidates) :
        \E k \in 1..Len(call.allCandidates) :
            call.allCandidates[k] = call.greedyCandidates[g]

\* C23: the optimizing phase evaluates each distinct mode sequence at most
\* once; the candidate list is the greedy candidates followed by the
\* enumerated sequences without duplicates, and a sequence produced by both
\* is kept as the greedy candidate, with its initial guess.
C23_CandidatesUnique ==
    call.fn # "none" => (EvaluatedOnce /\ GreedyThenEnumerated /\ GreedyKept)

\* a search is over whose greedy phase and enumeration produced the same sequence
C23_Witness ==
    /\ call.phase = "done"
    /\ Len(call.evaluated) >= 2
    /\ \E g \in 1..Len(call.greedyCandidates), e \in 1..Len(call.enumerated) :
          /\ call.greedyCandidates[g].modeSequence = call.enumerated[e]
          /\ \E k \in 1..Len(call.evaluated) :
                /\ call.evaluated[k].modeSequence = call.enumerated[e]
                /\ call.evaluated[k].initialBlends # <<>>

(***************************************************************************)
(* The best result and the top list of a search (specification Spec).      *)
(***************************************************************************)
\* the avgError of existingBest and of every result evaluated so far
KnownErrors(s) ==
    {r.avgError : r \in s.seen} \cup {s.existingBest[k].avgError : k \in 1..Len(s.existingBest)}

BestAgreesWithTop(s) ==
    /\ s.bestResult = <<>> <=> s.topSolutions = <<>>
    /\ s.bestResult # <<>> =>
          /\ s.bestResult[1].avgError = s.topSolutions[1].avgError
          /\ s.bestResult[1].avgError \in KnownErrors(s)
          /\ \A e \in KnownErrors(s) : s.bestResult[1].avgError <= e

CancelledNoWorseThanReported(s) ==
    (s.ret.kind = "single" /\ s.lastBestFound # <<>>) =>
        /\ s.ret.val # <<>>
        /\ s.ret.val[1].avgError <= s.lastBestFound[1].avgError

\* C24: in every state of a search bestResult is null exactly when
\* topSolutions is empty, and otherwise bestResult.avgError equals
\* topSolutions[0].avgError, the minimum over existingBest and the candidates
\* evaluated so far; the value returned on cancellation is never worse than
\* the head of the list the last callback reported.
C24_BestAgreesWithTop ==
    \A i \in DOMAIN opt :
        opt[i].pc # "new" => (BestAgreesWithTop(opt[i]) /\ CancelledNoWorseThanReported(opt[i]))

\* a cancelled search that had an existing best and improved on it returned
C24_Witness ==
    \E i \in DOMAIN opt :
        /\ opt[i].ret.kind = "single"
        /\ opt[i].existingBest # <<>>
        /\ Cardinality(opt[i].seen) >= 2
        /\ opt[i].ret.val # <<>>
        /\ opt[i].ret.val[1].avgError < opt[i].existingBest[1].avgError

\* C25: while a started search is still running and has not been cancelled,
\* the handle currentOptimizer refers to it (so cancelMultiStepOptimization
\* cancels it and returns true); the completion of an earlier, cancelled
\* search never clears the handle.
C25_HandleHoldsRunningSearch ==
    \A i \in DOMAIN opt :
        (opt[i].pc \in Suspended /\ ~opt[i].cancelled) => currentOptimizer = i

\* the handle is never left on a search that is over or cancelled
C25_HandleOnlyOnRunningSearch ==
    currentOptimizer # 0 =>
        (opt[currentOptimizer].pc \in Suspended /\ ~opt[currentOptimizer].cancelled)

(***************************************************************************)
(* The page: the compute button, multiStepState and the searches the       *)
(* button starts.  call holds the fields of multiStepState and of the page *)
(* that the handlers read, topList is multiStepState.topSolutions, opt the *)
(* searches and currentOptimizer the handle.  A search is reduced to what  *)
(* the page sees of it: the lists it passes to onBestFound and the value   *)
(* it returns.  A result carries the number of the pair list it was        *)
(* computed for (its perPairResults).  The opacity fields and the allow    *)
(* boxes reset the page as the step count does.  Two fields are history:   *)
(* stale marks the searches started before the last change, and            *)
(* ranSinceChange tells that a search started after it has returned.       *)
(***************************************************************************)
MaxPageSearches == 2  \* searches started from the button
MaxFound == 1         \* candidates a search evaluates
MaxColourChanges == 1 \* changes of the colour pairs
StepCounts == {1, 2}  \* values of the num-steps field

PageResult(numSteps, pairs, err) ==
    [steps |-> [j \in 1..numSteps |-> BlendStep("Multiply", "#804020")],
     avgError |-> err, pairs |-> pairs]

\* updateTopSolutions of the page: merge newSolutions into existingSolutions
RECURSIVE MergeSolutions(_, _)
MergeSolutions(newSolutions, all) ==
    IF newSolutions = <<>> THEN all
    ELSE LET sol == Head(newSolutions)
             existingIdx == FindIndex(all, GetKey(sol, "p7"), "p7")
             next == IF existingIdx > 0
                     THEN IF sol.avgError < all[existingIdx].avgError
                          THEN [all EXCEPT ![existingIdx] = sol]
                          ELSE all
                     ELSE Append(all, sol)
         IN  MergeSolutions(Tail(newSolutions), next)

PageTopSolutions(newSolutions, existingSolutions) ==
    Slice(SortByError(MergeSolutions(newSolutions, existingSolutions)), 6)

NewSearch ==
    [pc |-> "new", cancelled |-> FALSE, numSteps |-> 0, pairs |-> 0, evaluated |-> 0,
     bestResult |-> <<>>, topSolutions |-> <<>>, stale |-> FALSE]

\* history: the searches started so far were started before the change
MarkStale(searches) ==
    [i \in DOMAIN searches |->
        IF searches[i].pc = "new" THEN searches[i] ELSE [searches[i] EXCEPT !.stale = TRUE]]

\* window.resetMultiStepState
resetMultiStepState(c) == [c EXCEPT !.hasCompletedFirstRun = FALSE, !.computing = FALSE]

\* the click handler of the compute button, up to its await
ClickCompute ==
    IF call.computing
    THEN /\ opt' = IF currentOptimizer # 0
                   THEN [opt EXCEPT ![currentOptimizer].cancelled = TRUE]
                   ELSE opt
         /\ currentOptimizer' = 0
         /\ call' = [call EXCEPT !.computing = FALSE]
         /\ UNCHANGED <<build, topList>>
    ELSE \E i \in DOMAIN opt :
            /\ opt[i].pc = "new"
            /\ \A j \in 1..(i - 1) : opt[j].pc # "new"
            /\ LET old == IF currentOptimizer # 0
                          THEN [opt EXCEPT ![currentOptimizer].cancelled = TRUE]
                          ELSE opt
                   existingBest == IF call.hasCompletedFirstRun /\ Len(topList) > 0
                                   THEN <<topList[1]>> ELSE <<>>
               IN  opt' = [old EXCEPT ![i] =
                             [NewSearch EXCEPT !.pc = "running", !.numSteps = call.numSteps,
                                               !.pairs = call.pairs,
                                               !.bestResult = existingBest,
                                               !.topSolutions = existingBest]]
            /\ currentOptimizer' = i
            /\ call' = [call EXCEPT !.computing = TRUE]
            /\ UNCHANGED <<build, topList>>

\* a running search evaluates a candidate and calls onBestFound
SearchReports(i, err) ==
    /\ opt[i].pc = "running"
    /\ ~opt[i].cancelled
    /\ opt[i].evaluated < MaxFound
    /\ LET r == PageResult(opt[i].numSteps, opt[i].pairs, err)
           top == updateTopSolutions(opt[i].topSolutions, r, build)
           best == IF opt[i].bestResult = <<>> \/ r.avgError < opt[i].bestResult[1].avgError
                   THEN <<r>> ELSE opt[i].bestResult
       IN  /\ opt' = [opt EXCEPT ![i].topSolutions = top, ![i].bestResult = best,
                                 ![i].evaluated = @ + 1]
           /\ topList' = PageTopSolutions(top, topList)
    /\ UNCHANGED <<build, currentOptimizer, call>>

\* a search returns: the continuation of startMultiStepOptimization, then the
\* rest of the click handler that started it
SearchReturns(i) ==
    /\ opt[i].pc = "running"
    /\ LET solutions == IF opt[i].cancelled THEN opt[i].bestResult ELSE opt[i].topSolutions
           top == IF solutions # <<>> THEN PageTopSolutions(solutions, topList) ELSE topList
       IN  /\ topList' = top
           /\ call' = [call EXCEPT !.computing = FALSE,
                                   !.hasCompletedFirstRun = @ \/ Len(top) > 0,
                                   !.ranSinceChange = @ \/ ~opt[i].stale]
    /\ opt' = [opt EXCEPT ![i].pc = "returned"]
    /\ currentOptimizer' = 0
    /\ UNCHANGED build

\* the change handler of the num-steps field
ChangeSteps(n) ==
    /\ n # call.numSteps
    /\ call' = [resetMultiStepState(call) EXCEPT !.numSteps = n, !.ranSinceChange = FALSE]
    /\ opt' = MarkStale(opt)
    /\ UNCHANGED <<build, currentOptimizer, topList>>

\* a colour of a pair changes: updateCalculations
ChangeColours ==
    /\ call.pairs < MaxColourChanges
    /\ topList' = <<>>
    /\ call' = [resetMultiStepState(call) EXCEPT !.pairs = @ + 1, !.ranSinceChange = FALSE]
    /\ opt' = MarkStale(opt)
    /\ UNCHANGED <<build, currentOptimizer>>

InitPage ==
    /\ build \in Builds
    /\ currentOptimizer = 0
    /\ opt = [i \in 1..MaxPageSearches |-> NewSearch]
    /\ topList = <<>>
    /\ call = [fn |-> "page", computing |-> FALSE, hasCompletedFirstRun |-> FALSE,
               numSteps |-> 2, pairs |-> 0, ranSinceChange |-> FALSE]

NextPage ==
    \/ ClickCompute
    \/ \E i \in DOMAIN opt, err \in 1..MaxError : SearchReports(i, err)
    \/ \E i \in DOMAIN opt : SearchReturns(i)
    \/ \E n \in StepCounts : ChangeSteps(n)
    \/ ChangeColours

SpecPage == InitPage /\ [][NextPage]_vars

\* a search started from the button has not returned and is not cancelled
SearchInFlight == \E i \in DOMAIN opt : opt[i].pc = "running" /\ ~opt[i].cancelled

\* C26: multiStepState.computing is true exactly in the states in which a
\* search started from the compute button has not returned and has not been
\* cancelled, for any interleaving of clicks, changes and completions.
C26_ComputingIffSearchInFlight == call.computing <=> SearchInFlight

\* one half holds: the flag is never set without such a search
C26_ComputingOnlyWithSearch == call.computing => SearchInFlight

\* C27: every solution of multiStepState.topSolutions was computed for the
\* current pairs, and once a search started after a change of the step count
\* has returned every solution has the requested number of steps.
C27_ListIsCurrent ==
    \A k \in 1..Len(topList) :
        /\ topList[k].pairs = call.pairs
        /\ call.ranSinceChange => Len(topList[k].steps) = call.numSteps

(***************************************************************************)
(* generateModeSequences under fair random choice: the call keeps running  *)
(* and a fill loop that can draw an unused sequence eventually draws one.  *)
(***************************************************************************)
\* a step of the call in progress
GenRun ==
    \/ \E tail \in Tails : GenPairwise(tail)
    \/ \E seq \in Draws : GenFill(seq)
    \/ GenReturn

SpecGenFair == InitGen /\ [][NextGen]_vars /\ WF_vars(GenRun)

DistinctOfLength ==
    /\ \A i, j \in 1..Len(call.sequences) : call.sequences[i] = call.sequences[j] => i = j
    /\ \A i \in 1..Len(call.sequences) : Len(call.sequences[i]) = call.numSteps

\* C28: for numSteps >= 2 generateModeSequences terminates (the random fill
\* always finds a new sequence eventually, the random choice being fair) and
\* the sequences it returns are pairwise distinct, each of length numSteps.
C28_TerminatesDistinct ==
    /\ [](call.numSteps >= 2 => DistinctOfLength)
    /\ (call.numSteps >= 2) ~> (call.phase = "returned")

\* a call with numSteps >= 2 returned a sample that the random fill completed
C28_Witness ==
    /\ call.phase = "returned"
    /\ call.numSteps >= 2
    /\ \E q \in 1..Len(call.origin) : call.origin[q] = "random"
    /\ Len(call.sequences) = call.maxSequences

(***************************************************************************)
(* The pair list of the page (state.js, parseURLPairs).  call.pairs is     *)
(* state.pairs and call.nextPairId the id counter; call.fn, call.id,       *)
(* call.ret and call.before record the last operation, its argument, what  *)
(* it returned and the list it found.                                      *)
(***************************************************************************)
MaxPairId == 4        \* ids handed out in one run
MaxParts == 2         \* ';'-separated parts of the pairs parameter

\* /^#[0-9a-fA-F]{6}$/i.test(s)
IsHexColour(s) ==
    Len(s) = 7 /\ s[1] = "#" /\ \A k \in 2..7 : s[k] \in HexDigits

LowerChar(c) ==
    CASE c = "A" -> "a" [] c = "B" -> "b" [] c = "C" -> "c"
      [] c = "D" -> "d" [] c = "E" -> "e" [] c = "F" -> "f"
      [] OTHER -> c

toLowerCase(s) == [k \in 1..Len(s) |-> LowerChar(s[k])]

\* texts of a URL parameter; <<>> is a missing or empty one
UrlColours == {<<>>, <<"r", "e", "d">>, <<"#", "A", "A", "0", "0", "0", "0">>}
UrlWeights == {<<>>, <<"2">>, <<"x">>}

\* parseFloat of a one-character text: <<v>>, or <<>> for NaN
parseFloat(w) ==
    IF Len(w) = 1 /\ w[1] \in {"0", "1", "2", "3", "4", "5", "6", "7", "8", "9"}
    THEN <<HexVal(w[1])>>
    ELSE <<>>

UrlParts == [source : UrlColours, target : UrlColours, weight : UrlWeights]

\* window.location.search: the parts of pairs (none when the parameter is
\* missing or empty) and the legacy source and target parameters
UrlSearches ==
    [pairs : UNION {[1..n -> UrlParts] : n \in 0..MaxParts},
     source : {<<>>, <<"#", "B", "B", "0", "0", "0", "0">>},
     target : {<<>>, <<"b", "l", "u", "e">>}]

NewPair(id) == [id |-> id, source |-> NullField, target |-> NullField, weight |-> 1]

\* the pair parseURLPairs builds from one part
ParsedPair(part, id) ==
    [id |-> id,
     source |-> IF Len(part.source) > 0 /\ IsHexColour(part.source)
                THEN Text(toLowerCase(part.source)) ELSE NullField,
     target |-> IF Len(part.target) > 0 /\ IsHexColour(part.target)
                THEN Text(toLowerCase(part.target)) ELSE NullField,
     weight |-> IF Len(part.weight) > 0 /\ parseFloat(part.weight) # <<>>
                THEN parseFloat(part.weight)[1] ELSE 1]

PairIds(pairs) == {pairs[k].id : k \in 1..Len(pairs)}

\* state.pairs.findIndex(p => p.id === id), 0 for -1
findIndex(pairs, id) ==
    IF id \in PairIds(pairs)
    THEN CHOOSE k \in 1..Len(pairs) :
             pairs[k].id = id /\ \A q \in 1..(k - 1) : pairs[q].id # id
    ELSE 0

addPair ==
    /\ call.nextPairId <= MaxPairId
    /\ call' = [fn |-> "addPair", id |-> call.nextPairId, ret |-> <<>>,
                before |-> call.pairs,
                pairs |-> Append(call.pairs, NewPair(call.nextPairId)),
                nextPairId |-> call.nextPairId + 1]
    /\ UNCHANGED <<build, currentOptimizer, opt, topList>>

\* removePair without the guard on the last remaining pair
removePairUnguarded(id) ==
    LET index == findIndex(call.pairs, id)
    IN  /\ call' = [call EXCEPT !.fn = "removePair", !.id = id,
                                !.ret = <<index # 0>>,
                                !.before = call.pairs,
                                !.pairs = IF index # 0 THEN RemoveAt(@, index) ELSE @]
        /\ UNCHANGED <<build, currentOptimizer, opt, topList>>

removePair(id) ==
    LET index == findIndex(call.pairs, id)
        removed == Len(call.pairs) > 1 /\ index # 0
    IN  /\ call' = [call EXCEPT !.fn = "removePair", !.id = id,
                                !.ret = <<removed>>,
                                !.before = call.pairs,
                                !.pairs = IF removed THEN RemoveAt(@, index) ELSE @]
        /\ UNCHANGED <<build, currentOptimizer, opt, topList>>

parseURLPairs(search) ==
    LET n == Len(search.pairs)
        built == [k \in 1..n |-> ParsedPair(search.pairs[k], call.nextPairId + k - 1)]
        parsedPairs == SelectSeq(built, LAMBDA p : ~p.source.null \/ ~p.target.null)
        restored == IF n > 0 /\ Len(parsedPairs) > 0 THEN parsedPairs ELSE call.pairs
        legacy ==
            /\ Len(search.source) > 0 \/ Len(search.target) > 0
            /\ Len(restored) = 1
            /\ ~TruthyText(restored[1].source)
            /\ ~TruthyText(restored[1].target)
        first ==
            [restored[1] EXCEPT
                !.source = IF Len(search.source) > 0 /\ IsHexColour(search.source)
                           THEN Text(toLowerCase(search.source)) ELSE @,
                !.target = IF Len(search.target) > 0 /\ IsHexColour(search.target)
                           THEN Text(toLowerCase(search.target)) ELSE @]
    IN  /\ call.nextPairId + n <= MaxPairId + 1
        /\ call' = [fn |-> "parseURLPairs", id |-> 0, ret |-> <<>>,
                    before |-> call.pairs,
                    pairs |-> IF legacy THEN <<first>> \o Tail(restored) ELSE restored,
                    nextPairId |-> call.nextPairId + n]
        /\ UNCHANGED <<build, currentOptimizer, opt, topList>>

\* the page as state.js leaves it: one empty pair, id 1
InitPairs ==
    /\ build \in Builds
    /\ currentOptimizer = 0
    /\ opt = <<>>
    /\ topList = <<>>
    /\ call = [fn |-> "none", id |-> 0, ret |-> <<>>, before |-> <<>>,
               pairs |-> <<NewPair(1)>>, nextPairId |-> 2]

NextPairs ==
    \/ addPair
    \/ \E id \in 1..MaxPairId : removePair(id)
    \/ \E search \in UrlSearches : parseURLPairs(search)

SpecPairs == InitPairs /\ [][NextPairs]_vars

IdsDistinct ==
    \A i, j \in 1..Len(call.pairs) : call.pairs[i].id = call.pairs[j].id => i = j

\* a removePair that found one pair only, or no pair of the id it was given
RefusedRemove ==
    /\ call.fn = "removePair"
    /\ Len(call.before) = 1 \/ call.id \notin PairIds(call.before)

\* C29: whatever addPair, removePair and parseURLPairs calls were made, the
\* pair list is not empty and no two of its pairs have the same id, and a
\* removePair on the last remaining pair or on an id no pair has returned
\* false and left the list as it was
C29_PairsNonEmptyDistinct ==
    /\ Len(call.pairs) >= 1
    /\ IdsDistinct
    /\ RefusedRemove => call.ret = <<FALSE>> /\ call.pairs = call.before

\* removePair refused to remove the last pair of a list that a URL restored
\* or that had pairs added and removed
C29_Witness ==
    /\ call.fn = "removePair"
    /\ Len(call.before) = 1
    /\ call.id = call.before[1].id
    /\ call.id > 1
    /\ call.ret = <<FALSE>>

(***************************************************************************)
(* The colour history (pushToHistory).  call.colors is historyState.colors *)
(* and call.log the valid colours pushed so far, oldest first, each as it  *)
(* was stored; call.fn, call.hex and call.before record the last push, its *)
(* argument and the list it found.                                         *)
(***************************************************************************)
HistoryMax == 20      \* historyState.max
MaxPushes == 4        \* pushes made after the initial state

DecimalDigits == <<"0", "1", "2", "3", "4", "5", "6", "7", "8", "9">>

\* the k-th of the colours "#000001", "#000002", ... "#000099"
SessionColour(k) ==
    <<"#", "0", "0", "0", "0", DecimalDigits[(k \div 10) + 1], DecimalDigits[(k % 10) + 1]>>

\* lengths of the history at the start: empty as in state.js, or the one a
\* session has after pushing that many different colours, the last pushed
\* being "#000001"
HistoryLengths == {0, HistoryMax - 1, HistoryMax}

PushInputs ==
    {<<"#", "A", "A", "0", "0", "0", "0">>,
     <<"#", "a", "a", "0", "0", "0", "0">>,
     <<"#", "b", "b", "0", "0", "0", "0">>,
     SessionColour(1),
     SessionColour(HistoryMax - 1),
     <<"r", "e", "d">>,
     <<"#", "0", "0", "0", "0", "0", "g">>}

\* pushToHistory with the step "remove if it exists elsewhere" left out
pushToHistoryNoSplice(hex) ==
    LET lower == toLowerCase(hex)
        list == call.colors
        unshifted == <<lower>> \o list
        trimmed == IF Len(unshifted) > HistoryMax
                   THEN SubSeq(unshifted, 1, HistoryMax) ELSE unshifted
        returnsEarly == ~IsHexColour(hex) \/ (Len(list) > 0 /\ list[1] = lower)
    IN  /\ call.pushes < MaxPushes
        /\ call' = [fn |-> "pushToHistory", hex |-> hex, before |-> list,
                    colors |-> IF returnsEarly THEN list ELSE trimmed,
                    log |-> IF IsHexColour(hex) THEN Append(call.log, lower) ELSE call.log,
                    pushes |-> call.pushes + 1]
        /\ UNCHANGED <<build, currentOptimizer, opt, topList>>

pushToHistory(hex) ==
    LET lower == toLowerCase(hex)
        list == call.colors
        spliced == IF lower \in Range(list)
                   THEN RemoveAt(list, IndexOf(list, lower)) ELSE list
        unshifted == <<lower>> \o spliced
        trimmed == IF Len(unshifted) > HistoryMax
                   THEN SubSeq(unshifted, 1, HistoryMax) ELSE unshifted
        returnsEarly == ~IsHexColour(hex) \/ (Len(list) > 0 /\ list[1] = lower)
    IN  /\ call.pushes < MaxPushes
        /\ call' = [fn |-> "pushToHistory", hex |-> hex, before |-> list,
                    colors |-> IF returnsEarly THEN list ELSE trimmed,
                    log |-> IF IsHexColour(hex) THEN Append(call.log, lower) ELSE call.log,
                    pushes |-> call.pushes + 1]
        /\ UNCHANGED <<build, currentOptimizer, opt, topList>>

InitHistory ==
    /\ build \in Builds
    /\ currentOptimizer = 0
    /\ opt = <<>>
    /\ topList = <<>>
    /\ \E n \in HistoryLengths :
           call = [fn |-> "none", hex |-> <<>>, before |-> <<>>,
                   colors |-> [k \in 1..n |-> SessionColour(k)],
                   log |-> [k \in 1..n |-> SessionColour(n + 1 - k)],
                   pushes |-> 0]

NextHistory == \E hex \in PushInputs : pushToHistory(hex)

SpecHistory == InitHistory /\ [][NextHistory]_vars

\* position in call.log of the last push of colour c
LastPush(c) ==
    CHOOSE k \in 1..Len(call.log) :
        call.log[k] = c /\ \A q \in (k + 1)..Len(call.log) : call.log[q] # c

NoDuplicateColour ==
    \A i, j \in 1..Len(call.colors) :
        toLowerCase(call.colors[i]) = toLowerCase(call.colors[j]) => i = j

\* every entry was pushed, an entry pushed later stands before one pushed
\* earlier, and a pushed colour that is missing was pushed before all
\* entries of a full list
MostRecentFirst ==
    /\ \A i \in 1..Len(call.colors) : call.colors[i] \in Range(call.log)
    /\ \A i, j \in 1..Len(call.colors) :
           i < j => LastPush(call.colors[i]) > LastPush(call.colors[j])
    /\ \A c \in Range(call.log) \ Range(call.colors) :
           /\ Len(call.colors) = HistoryMax
           /\ LastPush(c) < LastPush(call.colors[HistoryMax])

\* a push of a text that is no #rrggbb colour or that is the first entry
IgnoredPush ==
    /\ call.fn = "pushToHistory"
    /\ \/ ~IsHexColour(call.hex)
       \/ Len(call.before) > 0 /\ call.hex = call.before[1]

\* C30: whatever pushToHistory calls were made, the colour history has at
\* most 20 entries, holds no colour twice, lists the colours by their last
\* push with the latest first, and a push of a text that is not a 6-digit
\* #rrggbb colour or that equals the first entry left it as it was
C30_HistoryKept ==
    /\ Len(call.colors) <= 20
    /\ NoDuplicateColour
    /\ MostRecentFirst
    /\ IgnoredPush => call.colors = call.before

\* a push of a new colour, written in capitals, onto a full history: it was
\* stored in lower case at the front and the oldest entry was dropped
C30_Witness ==
    /\ call.fn = "pushToHistory"
    /\ Len(call.before) = HistoryMax
    /\ Len(call.colors) = HistoryMax
    /\ call.colors[1] \notin Range(call.before)
    /\ call.colors[1] # call.hex
    /\ call.before[HistoryMax] \notin Range(call.colors)

====
